---------------------------- MODULE Spec2Model ----------------------------
(***************************************************************************)
(* A model of the pomsky parser (pomsky-lib/src/parse/parsers.rs) and of   *)
(* the pomsky command line (pomsky-bin/src/main.rs).                       *)
(*                                                                         *)
(* The parser is a recursive-descent parser written with nom combinators.  *)
(* Its recursive productions (parse_modified, parse_or, parse_sequence,    *)
(* parse_fixes, parse_atom, parse_group and the recurse wrapper) are       *)
(* modelled as a machine with an explicit call stack: one frame for each   *)
(* active call, one action for each place where a call is made or its      *)
(* result is taken up.  The productions that never descend into an         *)
(* expression (strings, character classes, ranges, repetition suffixes,    *)
(* ...) are operators from an input position to a nom result.              *)
(*                                                                         *)
(* A nom result is Ok (rest of the input and an output), Error (the        *)
(* recoverable nom::Err::Error: alt, opt, many0, many1 and separated_list0 *)
(* go on with another choice) or Failure (nom::Err::Failure: every         *)
(* combinator hands it on unchanged).                                      *)
(***************************************************************************)
EXTENDS Integers, Sequences, FiniteSets, TLC

VARIABLES
    toks,       \* the token stream of the source (tokenize's result)
    stack,      \* the parser's call stack, innermost frame last
    ret,        \* the nom result handed to the innermost frame, or NoRet
    warnings,   \* the RefCell<Vec<Warning>> shared by all copies of Input
    result,     \* what Expr::parse returned, or Pending
    ev,         \* the mapping closure the last step ran, with its arguments
    cli,        \* the state of the pomsky command line process
    lib         \* a parsed expression and the calls of compile on it

vars == <<toks, stack, ret, warnings, result, ev, cli, lib>>

parserVars == <<toks, stack, ret, warnings, result, ev>>

-----------------------------------------------------------------------------
(* Spans.  A token is one unit wide: token i covers [i, i+1).              *)

Span(start, end) == [start |-> start, end |-> end]

SpanDefault == Span(0, 0)

SpanIsEmpty(sp) == sp.end = 0

Min(a, b) == IF a <= b THEN a ELSE b

Max(a, b) == IF a >= b THEN a ELSE b

Join(a, b) ==
    IF SpanIsEmpty(a) THEN (IF SpanIsEmpty(b) THEN SpanDefault ELSE b)
    ELSE IF SpanIsEmpty(b) THEN a
    ELSE Span(Min(a.start, b.start), Max(a.end, b.end))

TokSpan(i) == Span(i, i + 1)

-----------------------------------------------------------------------------
(* Input: the tokens not yet consumed and the recursion budget.  Input is  *)
(* passed by value, so a combinator that backtracks goes on with its own   *)
(* copy, budget included.                                                  *)

Input(pos, rec) == [pos |-> pos, rec |-> rec]

IsEmpty(inp) == inp.pos > Len(toks)

InputSpan(inp) ==
    IF IsEmpty(inp) THEN Span(Len(toks) + 1, Len(toks) + 1) ELSE TokSpan(inp.pos)

Advance(inp, n) == [inp EXCEPT !.pos = @ + n]

Peek(inp) == toks[inp.pos]

-----------------------------------------------------------------------------
(* nom results and parse errors.                                           *)

NoRet == [tag |-> "None"]

Ok(inp, out) == [tag |-> "Ok", inp |-> inp, out |-> out]

At(kind, sp) == [kind |-> kind, span |-> sp]

Error(e) == [tag |-> "Error", err |-> e]

Failure(e) == [tag |-> "Failure", err |-> e]

IsOk(r) == r.tag = "Ok"

IsError(r) == r.tag = "Error"

IsFailure(r) == r.tag = "Failure"

cut(r) == IF IsError(r) THEN Failure(r.err) ELSE r

(* let v = ..; K(v): the value is computed once and named in what follows. *)
Bind(v, K(_)) == K(v)

Token_parse(t, inp) ==
    IF ~IsEmpty(inp) /\ Peek(inp).t = t
    THEN Ok(Advance(inp, 1), [s |-> Peek(inp).s, span |-> TokSpan(inp.pos)])
    ELSE Error(At("ExpectedToken", InputSpan(inp)))

str_parse(kw, inp) ==
    IF ~IsEmpty(inp) /\ Peek(inp).t = "Identifier" /\ Peek(inp).s = kw
    THEN Ok(Advance(inp, 1), [s |-> kw, span |-> TokSpan(inp.pos)])
    ELSE Error(At("ExpectedWord", InputSpan(inp)))

-----------------------------------------------------------------------------
(* The AST.  Every node carries "depth", the number of nodes on its        *)
(* longest path down to a leaf; the program keeps no such field, it is     *)
(* recorded here so that the nesting of a returned AST can be stated.      *)

None == [some |-> FALSE]

Some(v) == [some |-> TRUE, v |-> v]

MaxDepth(rules) ==
    IF rules = <<>> THEN 0
    ELSE CHOOSE d \in {rules[i].depth : i \in 1..Len(rules)} :
             \A i \in 1..Len(rules) : rules[i].depth <= d

Literal_new(content, sp) ==
    [k |-> "Literal", content |-> content, span |-> sp, depth |-> 1]

CharClass_new(group, sp) ==
    [k |-> "CharClass", negative |-> FALSE, inner |-> group, span |-> sp, depth |-> 1]

Group_new(parts, capture, sp) ==
    [k |-> "Group", parts |-> parts, capture |-> capture, span |-> sp,
     depth |-> 1 + MaxDepth(parts)]

Alternation_node(rules, sp) ==
    [k |-> "Alternation", rules |-> rules, span |-> sp, depth |-> 1 + MaxDepth(rules)]

Repetition_new(rule, kind, quantifier, sp) ==
    [k |-> "Repetition", rule |-> rule, kind |-> kind, quantifier |-> quantifier,
     span |-> sp, depth |-> 1 + rule.depth]

Boundary_new(kind, sp) == [k |-> "Boundary", kind |-> kind, span |-> sp, depth |-> 1]

Lookaround_new(rule, kind, sp) ==
    [k |-> "Lookaround", rule |-> rule, kind |-> kind, negative |-> FALSE,
     span |-> sp, depth |-> 1 + rule.depth]

Variable_new(name, sp) == [k |-> "Variable", name |-> name, span |-> sp, depth |-> 1]

Reference_new(target, sp) ==
    [k |-> "Reference", target |-> target, span |-> sp, depth |-> 1]

Range_new(start, end, radix, sp) ==
    [k |-> "Range", start |-> start, end |-> end, radix |-> radix, span |-> sp,
     depth |-> 1]

Let_new(name, rule, name_span) ==
    [s |-> "Let", name |-> name, rule |-> rule, name_span |-> name_span]

StmtExpr_new(stmt, rule, sp) ==
    [k |-> "StmtExpr", stmt |-> stmt, rule |-> rule, span |-> sp,
     depth |-> 1 + Max(rule.depth, IF stmt.s = "Let" THEN stmt.rule.depth ELSE 0)]

(* Alternation::new_expr: folds the branches into one Alternation, merging *)
(* a branch that is itself an Alternation; no branch gives the empty       *)
(* literal, one branch gives that branch.                                  *)
new_expr_step(acc, b) ==
    IF acc.k = "Alternation" /\ b.k = "Alternation"
    THEN Alternation_node(acc.rules \o b.rules, Join(acc.span, b.span))
    ELSE IF acc.k = "Alternation"
    THEN Alternation_node(Append(acc.rules, b), Join(acc.span, b.span))
    ELSE Alternation_node(<<acc, b>>, Join(acc.span, b.span))

(* The fold over the branches lo to hi in their order, the first half of   *)
(* them and then the rest; what the first half gives is an Alternation.    *)
RECURSIVE new_expr_fold(_, _, _, _)
new_expr_fold(acc, rules, lo, hi) ==
    IF lo > hi THEN acc
    ELSE IF lo = hi THEN new_expr_step(acc, rules[lo])
    ELSE Bind(new_expr_fold(acc, rules, lo, (lo + hi) \div 2), LAMBDA h :
             IF h.k # "Alternation" THEN h
             ELSE new_expr_fold(h, rules, ((lo + hi) \div 2) + 1, hi))

Alternation_new_expr(rules) ==
    IF rules = <<>> THEN Literal_new(<<>>, SpanDefault)
    ELSE new_expr_fold(rules[1], rules, 2, Len(rules))

(* Rule::negate: a character class, a word boundary and a lookaround are   *)
(* negated in place; nothing else can be negated.                          *)
negate(rule) ==
    IF rule.k = "CharClass" THEN
        IF rule.negative THEN [ok |-> FALSE, kind |-> "UnallowedDoubleNot"]
        ELSE [ok |-> TRUE, rule |-> [rule EXCEPT !.negative = TRUE]]
    ELSE IF rule.k = "Boundary" THEN
        IF rule.kind = "Word"
        THEN [ok |-> TRUE, rule |-> [rule EXCEPT !.kind = "NotWord"]]
        ELSE IF rule.kind = "NotWord"
        THEN [ok |-> FALSE, kind |-> "UnallowedDoubleNot"]
        ELSE [ok |-> FALSE, kind |-> "UnallowedNot"]
    ELSE IF rule.k = "Lookaround" THEN
        IF rule.negative THEN [ok |-> FALSE, kind |-> "UnallowedDoubleNot"]
        ELSE [ok |-> TRUE, rule |-> [rule EXCEPT !.negative = TRUE]]
    ELSE [ok |-> FALSE, kind |-> "UnallowedNot"]

-----------------------------------------------------------------------------
(* Lexemes.  The lexeme of a String, Number or CodePoint token is its      *)
(* sequence of bytes; the lexeme of an Identifier is a string, and         *)
(* IdentBytes gives the bytes of the identifiers used here.                *)

CharMax == 1114111

SurrogateLo == 55296

SurrogateHi == 57343

IdentBytes(s) ==
    CASE s = "a" -> <<97>>
      [] s = "b" -> <<98>>
      [] s = "n" -> <<110>>
      [] s = "w" -> <<119>>
      [] s = "U41" -> <<85, 52, 49>>
      [] OTHER -> <<95>>

RECURSIVE DecValue(_, _)
DecValue(bytes, acc) ==
    IF bytes = <<>> THEN acc
    ELSE DecValue(SubSeq(bytes, 2, Len(bytes)), acc * 10 + (bytes[1] - 48))

HexDigit(c) ==
    IF c >= 48 /\ c <= 57 THEN c - 48
    ELSE IF c >= 97 /\ c <= 102 THEN c - 87
    ELSE IF c >= 65 /\ c <= 70 THEN c - 55
    ELSE -1

RECURSIVE HexValue(_, _)
HexValue(bytes, acc) ==
    IF bytes = <<>> THEN acc
    ELSE HexValue(SubSeq(bytes, 2, Len(bytes)), acc * 16 + HexDigit(bytes[1]))

RECURSIVE StripZeros(_)
StripZeros(bytes) ==
    IF bytes # <<>> /\ bytes[1] = 48 THEN StripZeros(SubSeq(bytes, 2, Len(bytes)))
    ELSE bytes

(* a > b for two digit strings without leading zeros.                      *)
DigitsGreater(a, b) ==
    \/ Len(a) > Len(b)
    \/ /\ Len(a) = Len(b)
       /\ \E i \in 1..Len(a) : a[i] > b[i] /\ \A j \in 1..(i - 1) : a[j] = b[j]

(* The decimal digits of u32::MAX, 4294967295, and of i32::MAX; the        *)
(* integers of TLC end at i32::MAX, so an overflow is found on the digits. *)
U32MaxDigits == <<52, 50, 57, 52, 57, 54, 55, 50, 57, 53>>

I32MaxDigits == <<50, 49, 52, 55, 52, 56, 51, 54, 52, 55>>

U32HexLen == 8

(* u32::from_str_radix(s, 16): None for an empty string, a byte that is no *)
(* hex digit, or a value above u32::MAX.                                   *)
u32_from_str_radix16(bytes) ==
    IF bytes = <<>> \/ (\E i \in 1..Len(bytes) : HexDigit(bytes[i]) < 0)
       \/ Len(StripZeros(bytes)) > U32HexLen
    THEN None
    ELSE Some(HexValue(bytes, 0))

char_try_from(n) ==
    IF n > CharMax \/ (n >= SurrogateLo /\ n <= SurrogateHi) THEN None ELSE Some(n)

(* from_str: the value of a string of decimal digits, or Number(TooLarge)  *)
(* when it is above the type's largest value.                              *)
from_str(bytes, max_digits) ==
    IF DigitsGreater(StripZeros(bytes), max_digits)
    THEN [ok |-> FALSE, kind |-> "Number(TooLarge)"]
    ELSE [ok |-> TRUE, v |-> DecValue(bytes, 0)]

strip_first_last(bytes) == SubSeq(bytes, 2, Len(bytes) - 1)

(* parse_quoted_text: a double-quoted string has its \\ and \" escapes     *)
(* replaced, any other escape is an error; a single-quoted string is taken *)
(* as it is.                                                               *)
RECURSIVE unescape(_, _, _)
unescape(s, buf, total) ==
    IF s = <<>> THEN [ok |-> TRUE, v |-> buf]
    ELSE IF s[1] = 92 THEN
        IF Len(s) >= 2 /\ (s[2] = 92 \/ s[2] = 34)
        THEN unescape(SubSeq(s, 3, Len(s)), Append(buf, s[2]), total)
        ELSE [ok |-> FALSE, kind |-> "InvalidEscapeInStringAt", at |-> total - Len(s)]
    ELSE unescape(SubSeq(s, 2, Len(s)), Append(buf, s[1]), total)

parse_quoted_text(bytes) ==
    IF bytes[1] = 34 THEN unescape(strip_first_last(bytes), <<>>, Len(bytes))
    ELSE [ok |-> TRUE, v |-> strip_first_last(bytes)]

-----------------------------------------------------------------------------
(* Repetition suffixes.                                                    *)

RepetitionKind(lower, upper) == [lower |-> lower, upper |-> upper]

(* parse_u32 = try_map(Token::Number, from_str, Failure)                   *)
parse_u32(inp) ==
    Bind(Token_parse("Number", inp), LAMBDA t :
        IF ~IsOk(t) THEN t
        ELSE Bind(from_str(t.out.s, U32MaxDigits), LAMBDA v :
                 IF v.ok THEN Ok(t.inp, v.v)
                 ELSE Failure(At(v.kind, InputSpan(inp)))))

opt(r, inp) ==
    IF IsError(r) THEN Ok(inp, None) ELSE IF IsOk(r) THEN Ok(r.inp, Some(r.out)) ELSE r

(* RepetitionKind::try_from((lower, upper)).                               *)
RepetitionKind_try_from(lower, upper) ==
    IF upper.some /\ lower > upper.v
    THEN [ok |-> FALSE, kind |-> "Repetition(NotAscending)"]
    ELSE [ok |-> TRUE, v |-> RepetitionKind(lower, upper)]

(* The first alternative of the braced form: lower? "," upper?             *)
braced_pair(inp) ==
    Bind(opt(parse_u32(inp), inp), LAMBDA lo :
        IF ~IsOk(lo) THEN lo
        ELSE Bind(Token_parse("Comma", lo.inp), LAMBDA comma :
            IF ~IsOk(comma) THEN comma
            ELSE Bind(opt(parse_u32(comma.inp), comma.inp), LAMBDA hi :
                IF ~IsOk(hi) THEN hi
                ELSE Bind(RepetitionKind_try_from(IF lo.out.some THEN lo.out.v ELSE 0,
                                                  hi.out), LAMBDA k :
                         IF k.ok THEN Ok(hi.inp, k.v)
                         ELSE Failure(At(k.kind, InputSpan(inp)))))))

(* The second alternative: map(parse_u32, RepetitionKind::fixed).          *)
braced_fixed(inp) ==
    Bind(parse_u32(inp), LAMBDA n :
        IF IsOk(n) THEN Ok(n.inp, RepetitionKind(n.out, Some(n.out))) ELSE n)

(* alt of the two forms: the second is tried after an Error of the first.  *)
braced_alt(first, inp) == IF IsError(first) THEN braced_fixed(inp) ELSE first

parse_braced_repetition(inp) ==
    Bind(Token_parse("OpenBrace", inp), LAMBDA open :
        IF ~IsOk(open) THEN open
        ELSE Bind(cut(braced_alt(braced_pair(open.inp), open.inp)), LAMBDA rep :
            IF ~IsOk(rep) THEN rep
            ELSE Bind(cut(Token_parse("CloseBrace", rep.inp)), LAMBDA close :
                IF ~IsOk(close) THEN close
                ELSE Ok(close.inp,
                        [kind |-> rep.out,
                         span |-> Join(open.out.span, close.out.span),
                         syntax |-> "Other"]))))

(* map(Token, ..) of one of the symbols "?", "+", "*".                     *)
symbol_suffix(t, kind, syntax) ==
    IF IsOk(t) THEN Ok(t.inp, [kind |-> kind, span |-> t.out.span, syntax |-> syntax])
    ELSE t

(* The suffix proper: "?", "+", "*" or the braced form.                    *)
repetition_symbol(inp) ==
    IF IsOk(Token_parse("QuestionMark", inp))
    THEN symbol_suffix(Token_parse("QuestionMark", inp), RepetitionKind(0, Some(1)),
                       "QuestionMark")
    ELSE IF IsOk(Token_parse("Plus", inp))
    THEN symbol_suffix(Token_parse("Plus", inp), RepetitionKind(1, None), "Plus")
    ELSE IF IsOk(Token_parse("Star", inp))
    THEN symbol_suffix(Token_parse("Star", inp), RepetitionKind(0, None), "Other")
    ELSE parse_braced_repetition(inp)

(* map(str, ..) of "greedy" or "lazy".                                     *)
keyword_quantifier(t, quantifier) ==
    Ok(t.inp, [quantifier |-> quantifier, span |-> t.out.span,
               syntax |-> "ExplicitQuantifier"])

(* The optional "greedy" or "lazy" that ends a suffix.                     *)
repetition_quantifier(inp) ==
    IF IsOk(str_parse("greedy", inp))
    THEN keyword_quantifier(str_parse("greedy", inp), "Greedy")
    ELSE IF IsOk(str_parse("lazy", inp))
    THEN keyword_quantifier(str_parse("lazy", inp), "Lazy")
    ELSE Ok(inp, [quantifier |-> "Default", span |-> SpanDefault, syntax |-> "Other"])

(* The match with its arms in another order: the symbol of a "?" or "+"   *)
(* would count even when a keyword follows it.                             *)
rep_syntax_symbol_first(rs1, rs2) ==
    IF rs1 = "QuestionMark" THEN "QuestionMark"
    ELSE IF rs1 = "Plus" THEN "Plus"
    ELSE IF rs2 = "ExplicitQuantifier" THEN "ExplicitQuantifier"
    ELSE "Other"

(* The match on the syntax of the symbol and of the keyword.               *)
rep_syntax(rs1, rs2) ==
    IF rs2 = "ExplicitQuantifier" THEN "ExplicitQuantifier"
    ELSE IF rs1 = "QuestionMark" THEN "QuestionMark"
    ELSE IF rs1 = "Plus" THEN "Plus"
    ELSE "Other"

parse_repetition(inp) ==
    Bind(repetition_symbol(inp), LAMBDA a :
        IF ~IsOk(a) THEN a
        ELSE Bind(repetition_quantifier(a.inp), LAMBDA b :
                 Ok(b.inp, [kind |-> a.out.kind,
                            quantifier |-> b.out.quantifier,
                            span |-> Join(a.out.span, b.out.span),
                            syntax |-> rep_syntax(a.out.syntax, b.out.syntax)])))

RepetitionChainMax == 64

(* The loop's test with "Other" left out of the first pattern: a "?" or    *)
(* "+" would pass after "*" and after a braced suffix.                     *)
fixes_rejects_after_mark(prev_syntax, syntax) ==
    /\ prev_syntax \in {"QuestionMark", "Plus"}
    /\ syntax \in {"QuestionMark", "Plus"}

(* The test of the closure's loop: a "?" or "+" without a keyword after a  *)
(* suffix without a keyword.                                               *)
fixes_rejects(prev_syntax, syntax) ==
    /\ prev_syntax \in {"Other", "QuestionMark", "Plus"}
    /\ syntax \in {"QuestionMark", "Plus"}

(* A panic, at the place in the code where it is raised.  It unwinds the   *)
(* parser as a Failure does: no combinator goes on after it.               *)
PanicAt(site) == [kind |-> "Panic", site |-> site, span |-> SpanDefault]

(* The error the loop gives for a suffix it rejects; the match has an      *)
(* unreachable!() arm for a suffix that is neither "?" nor "+".            *)
fixes_error(repetition) ==
    IF repetition.syntax = "QuestionMark"
    THEN At("Repetition(QuestionMarkAfterRepetition)", repetition.span)
    ELSE IF repetition.syntax = "Plus"
    THEN At("Repetition(PlusAfterRepetition)", repetition.span)
    ELSE PanicAt("parse_fixes: unreachable!()")

(* The length check one too early: a chain of 64 suffixes would be taken   *)
(* for too long.                                                           *)
fixes_too_long_at_limit(repetitions) == Len(repetitions) >= RepetitionChainMax

(* The length check off by one: 65 suffixes would pass.                    *)
fixes_too_long_by_one(repetitions) == Len(repetitions) > RepetitionChainMax + 1

(* The closure's length check, before the loop.                            *)
fixes_too_long(repetitions) == Len(repetitions) > RepetitionChainMax

(* The error of a chain that is too long, from repetitions[64] to the      *)
(* last; indexing a vector of 64 suffixes or fewer at 64 panics.           *)
fixes_limit_error(repetitions) ==
    IF Len(repetitions) < RepetitionChainMax + 1
    THEN PanicAt("parse_fixes: repetitions[64]")
    ELSE At("RecursionLimit", Join(repetitions[RepetitionChainMax + 1].span,
                                   repetitions[Len(repetitions)].span))

(* many0(parse_repetition) takes one more suffix, unless it has ended: an  *)
(* Error ends the list, a Failure (a braced suffix cut short) fails the    *)
(* parse.                                                                  *)
many0_step(st) ==
    IF st.done THEN st
    ELSE Bind(parse_repetition(st.inp), LAMBDA r :
             IF IsOk(r) THEN [st EXCEPT !.inp = r.inp, !.out = Append(@, r.out)]
             ELSE [st EXCEPT !.done = TRUE,
                             !.failure = IF IsFailure(r) THEN Some(r) ELSE None])

(* n rounds of many0, the first half of them and then the rest.            *)
RECURSIVE many0_rounds(_, _)
many0_rounds(st, n) ==
    IF n <= 0 THEN st
    ELSE IF n = 1 THEN many0_step(st)
    ELSE Bind(many0_rounds(st, n \div 2), LAMBDA h :
             IF h.done THEN h ELSE many0_rounds(h, n - (n \div 2)))

(* many0(parse_repetition): every suffix takes a token at least, so one    *)
(* round more than there are tokens left ends it.                          *)
many0_repetition(inp) ==
    Bind(many0_rounds([done |-> FALSE, inp |-> inp, out |-> <<>>, failure |-> None],
                      Len(toks) - inp.pos + 2), LAMBDA st :
        IF st.failure.some THEN st.failure.v ELSE Ok(st.inp, st.out))

(* One round of the closure's loop: the suffix is rejected, or the rule    *)
(* gets a Repetition node around it.                                       *)
fixes_loop_step(st, repetition) ==
    IF ~st.ok THEN st
    ELSE IF fixes_rejects(st.prev_syntax, repetition.syntax)
    THEN [st EXCEPT !.ok = FALSE, !.err = Some(fixes_error(repetition))]
    ELSE [st EXCEPT !.rule = Repetition_new(@, repetition.kind, repetition.quantifier,
                                            Join(@.span, repetition.span)),
                    !.prev_syntax = repetition.syntax]

(* The closure's loop over the suffixes lo to hi in their order, the first *)
(* half of them and then the rest; a rejected suffix ends it.              *)
RECURSIVE fixes_loop(_, _, _, _)
fixes_loop(st, repetitions, lo, hi) ==
    IF lo > hi THEN st
    ELSE IF lo = hi THEN fixes_loop_step(st, repetitions[lo])
    ELSE Bind(fixes_loop(st, repetitions, lo, (lo + hi) \div 2), LAMBDA h :
             IF ~h.ok THEN h
             ELSE fixes_loop(h, repetitions, ((lo + hi) \div 2) + 1, hi))

(* The closure of parse_fixes' third alternative: the length check, then   *)
(* the loop from "ExplicitQuantifier" as the syntax before the first.      *)
fixes_map(inp, rule, repetitions) ==
    IF fixes_too_long(repetitions) THEN Failure(fixes_limit_error(repetitions))
    ELSE Bind(fixes_loop([ok |-> TRUE, rule |-> rule, err |-> None,
                          prev_syntax |-> "ExplicitQuantifier"],
                         repetitions, 1, Len(repetitions)), LAMBDA l :
             IF l.ok THEN Ok(inp, l.rule) ELSE Failure(l.err.v))

-----------------------------------------------------------------------------
(* Atoms that hold no nested expression.  A production that can push a     *)
(* warning gives [r, w]: its nom result and the warnings it pushed; Leaf   *)
(* is the pair of a production that pushes none.                           *)

Leaf(r) == [r |-> r, w |-> <<>>]

Warning_at(kind, sp) == [kind |-> kind, span |-> sp]

(* nom's alt of two parsers: the second is tried after an Error of the     *)
(* first; when both fail the error is the second's.                        *)
Alt(a, b) == IF IsError(a) THEN b ELSE a

(* alt of two parsers that push warnings.                                  *)
AltW(a, b) == IF IsError(a.r) THEN [r |-> b.r, w |-> a.w \o b.w] ELSE a

(* nom's map: f applied to the output of an Ok.                            *)
Map(r, f(_)) == IF IsOk(r) THEN Ok(r.inp, f(r.out)) ELSE r

Keywords ==
    {"let", "lazy", "greedy", "range", "base", "atomic", "enable", "disable",
     "if", "else", "recursion"}

parse_ident(inp) ==
    Bind(Token_parse("Identifier", inp), LAMBDA t :
        IF ~IsOk(t) THEN t
        ELSE IF t.out.s \in Keywords
        THEN Failure(At("UnexpectedKeyword", InputSpan(inp)))
        ELSE Ok(t.inp, [name |-> t.out.s, span |-> t.out.span]))

parse_variable(inp) ==
    Map(parse_ident(inp), LAMBDA o : Variable_new(o.name, o.span))

parse_string(inp) ==
    Bind(Token_parse("String", inp), LAMBDA t :
        IF ~IsOk(t) THEN t
        ELSE Bind(parse_quoted_text(t.out.s), LAMBDA q :
                 IF q.ok THEN Ok(t.inp, Literal_new(q.v, t.out.span))
                 ELSE Failure(At(q.kind, InputSpan(inp)))))

MaxHexLen == 6

(* u32::from_str_radix(..).ok().and_then(char::try_from(..).ok())          *)
char_from_hex(hex) ==
    Bind(u32_from_str_radix16(hex), LAMBDA n :
        IF n.some THEN char_try_from(n.v) ELSE None)

(* The first alternative of parse_code_point: a CodePoint token, U+1F.     *)
code_point_token(inp) ==
    Bind(Token_parse("CodePoint", inp), LAMBDA t :
        IF ~IsOk(t) THEN t
        ELSE Bind(SubSeq(t.out.s, 3, Len(t.out.s)), LAMBDA hex :
            Bind(IF Len(hex) > MaxHexLen THEN None ELSE char_from_hex(hex), LAMBDA c :
                IF c.some THEN Ok(t.inp, [c |-> c.v, span |-> t.out.span])
                ELSE Failure(At("CodePoint(Invalid)", InputSpan(inp))))))

(* The second alternative: an identifier U1F.                              *)
code_point_ident(inp) ==
    Bind(Token_parse("Identifier", inp), LAMBDA i :
        IF ~IsOk(i) THEN i
        ELSE Bind(IdentBytes(i.out.s), LAMBDA bytes :
            Bind(IF bytes[1] = 85
                 THEN u32_from_str_radix16(SubSeq(bytes, 2, Len(bytes)))
                 ELSE None, LAMBDA n :
                IF n.some THEN
                    IF char_try_from(n.v).some
                    THEN Ok(i.inp, [c |-> n.v, span |-> i.out.span])
                    ELSE Error(At("CodePoint(Invalid)", InputSpan(inp)))
                ELSE Error(At("ExpectedToken", InputSpan(inp))))))

parse_code_point(inp) == Alt(code_point_token(inp), code_point_ident(inp))

parse_start_end_new(inp) ==
    Alt(Map(Token_parse("Caret", inp), LAMBDA o : Boundary_new("Start", o.span)),
        Map(Token_parse("Dollar", inp), LAMBDA o : Boundary_new("End", o.span)))

parse_start_end_old(inp) ==
    Bind(Alt(Map(Token_parse("BStart", inp), LAMBDA o : Boundary_new("Start", o.span)),
             Map(Token_parse("BEnd", inp), LAMBDA o : Boundary_new("End", o.span))),
         LAMBDA b :
        IF ~IsOk(b) THEN Leaf(b)
        ELSE IF b.out.kind \notin {"Start", "End"}
        THEN Leaf(Failure(PanicAt("parse_start_end_old: unreachable!()")))
        ELSE [r |-> b,
              w |-> <<Warning_at(IF b.out.kind = "Start"
                                 THEN "Deprecation(OldStartLiteral)"
                                 ELSE "Deprecation(OldEndLiteral)", b.out.span)>>])

(* The fourth alternative of parse_boundary: "!" "%".                      *)
not_word(inp) ==
    Bind(Token_parse("Not", inp), LAMBDA not :
        IF ~IsOk(not) THEN not
        ELSE Map(Token_parse("BWord", not.inp),
                 LAMBDA o : Boundary_new("NotWord", Join(not.out.span, o.span))))

parse_boundary(inp) ==
    AltW(Leaf(parse_start_end_new(inp)),
         AltW(parse_start_end_old(inp),
              Leaf(Alt(Map(Token_parse("BWord", inp),
                           LAMBDA o : Boundary_new("Word", o.span)),
                       not_word(inp)))))

I32MinDigits == <<50, 49, 52, 55, 52, 56, 51, 54, 52, 56>>

(* The first alternative after "::": a number.                             *)
reference_number(inp) ==
    Bind(Token_parse("Number", inp), LAMBDA n :
        IF ~IsOk(n) THEN n
        ELSE Bind(from_str(n.out.s, U32MaxDigits), LAMBDA v :
                 IF v.ok
                 THEN Ok(n.inp, Reference_new([t |-> "Number", v |-> v.v], n.out.span))
                 ELSE Failure(At(v.kind, InputSpan(inp)))))

(* The third alternative: "+" or "-" and a number, parsed as an i32 with   *)
(* its sign.                                                               *)
reference_relative(inp) ==
    Bind(Alt(Token_parse("Plus", inp), Token_parse("Dash", inp)), LAMBDA sign :
        IF ~IsOk(sign) THEN sign
        ELSE Bind(Token_parse("Number", sign.inp), LAMBDA n :
            IF ~IsOk(n) THEN n
            ELSE Bind(toks[inp.pos].t = "Dash", LAMBDA minus :
                Bind(from_str(n.out.s, IF minus THEN I32MinDigits ELSE I32MaxDigits),
                     LAMBDA v :
                    IF v.ok
                    THEN Ok(n.inp,
                            Reference_new([t |-> "Relative",
                                           v |-> IF minus THEN 0 - v.v ELSE v.v],
                                          Join(sign.out.span, n.out.span)))
                    ELSE Failure(At(v.kind, InputSpan(inp)))))))

(* parse_reference: "::" then a number, a name, or a signed number.        *)
parse_reference(inp) ==
    Bind(Token_parse("Backref", inp), LAMBDA b :
        IF ~IsOk(b) THEN b
        ELSE Alt(reference_number(b.inp),
                 Alt(Map(Token_parse("Identifier", b.inp),
                         LAMBDA o : Reference_new([t |-> "Named", v |-> o.s], o.span)),
                     Alt(reference_relative(b.inp),
                         Error(At("Expected(number or group name)",
                                  InputSpan(b.inp)))))))

-----------------------------------------------------------------------------
(* Character classes.                                                      *)

Items(v) == [g |-> "Items", items |-> v]

CharGroup_Dot == [g |-> "Dot"]

Item_Char(c) == [t |-> "Char", c |-> c]

Item_Range(first, last) == [t |-> "Range", first |-> first, last |-> last]

Item_Named(name, negative) == [t |-> "Named", name |-> name, negative |-> negative]

CharGroup_from_char(c) == Items(<<Item_Char(c)>>)

CharGroup_from_chars(cs) == Items([i \in 1..Len(cs) |-> Item_Char(cs[i])])

CharGroup_try_from_range(first, last) ==
    IF first <= last THEN Some(Items(<<Item_Range(first, last)>>)) ELSE None

GroupNames == {"w", "d", "s"}

CharGroup_try_from_group_name(name, negative) ==
    IF name \in GroupNames
    THEN [ok |-> TRUE, v |-> Items(<<Item_Named(name, negative)>>)]
    ELSE [ok |-> FALSE, kind |-> "CharClass(UnknownNamedClass)"]

(* CharGroup::add: items are appended to items; anything else is refused.  *)
CharGroup_add(class, other) ==
    IF class.g = "Items" /\ other.g = "Items"
    THEN [ok |-> TRUE, v |-> Items(class.items \o other.items)]
    ELSE [ok |-> FALSE, kind |-> "CharClass(Unallowed)"]

StringOrChar_String(s) == [t |-> "String", s |-> s]

StringOrChar_Char(c) == [t |-> "Char", c |-> c]

to_char(x) ==
    IF x.t = "Char" THEN [ok |-> TRUE, c |-> x.c]
    ELSE Bind(parse_quoted_text(x.s), LAMBDA q :
             IF ~q.ok THEN [ok |-> FALSE, kind |-> q.kind]
             ELSE IF Len(q.v) = 1 THEN [ok |-> TRUE, c |-> q.v[1]]
             ELSE IF Len(q.v) > 1
             THEN [ok |-> FALSE, kind |-> "CharString(TooManyCodePoints)"]
             ELSE [ok |-> FALSE, kind |-> "CharString(Empty)"])

SpecialChars == {"n", "r", "t", "a", "e", "f"}

special_char(s) ==
    CASE s = "n" -> 10
      [] s = "r" -> 13
      [] s = "t" -> 9
      [] s = "a" -> 7
      [] s = "e" -> 27
      [] s = "f" -> 12

parse_special_char(inp) ==
    Bind(Token_parse("Identifier", inp), LAMBDA t :
        IF ~IsOk(t) THEN t
        ELSE IF t.out.s \in SpecialChars THEN Ok(t.inp, special_char(t.out.s))
        ELSE Error(At("Incomplete", InputSpan(inp))))

parse_string_or_char(inp) ==
    Alt(Map(Token_parse("String", inp), LAMBDA o : StringOrChar_String(o.s)),
        Alt(Map(parse_code_point(inp), LAMBDA o : StringOrChar_Char(o.c)),
            Alt(Map(parse_special_char(inp), LAMBDA c : StringOrChar_Char(c)),
                Error(At("ExpectedCodePointOrChar", InputSpan(inp))))))

(* The range with a string's first code point taken for the string.       *)
chars_range_first_chars(first, last, span1, span2) ==
    Bind(to_char(first), LAMBDA f :
        IF ~f.ok /\ f.kind # "CharString(TooManyCodePoints)" THEN Failure(At(f.kind, span1))
        ELSE Bind(to_char(last.out), LAMBDA l :
            IF ~l.ok /\ l.kind # "CharString(TooManyCodePoints)"
            THEN Failure(At(l.kind, span2))
            ELSE Bind(CharGroup_try_from_range(parse_quoted_text(first.s).v[1],
                                               parse_quoted_text(last.out.s).v[1]),
                      LAMBDA g :
                     IF g.some THEN Ok(last.inp, g.v)
                     ELSE Failure(At("CharClass(DescendingRange)",
                                     Join(span1, span2))))))

(* parse_chars_or_range after a "-": the range from first to last.         *)
chars_range(first, last, span1, span2) ==
    Bind(to_char(first), LAMBDA f :
        IF ~f.ok THEN Failure(At(f.kind, span1))
        ELSE Bind(to_char(last.out), LAMBDA l :
            IF ~l.ok THEN Failure(At(l.kind, span2))
            ELSE Bind(CharGroup_try_from_range(f.c, l.c), LAMBDA g :
                     IF g.some THEN Ok(last.inp, g.v)
                     ELSE Failure(At("CharClass(DescendingRange)",
                                     Join(span1, span2))))))

(* parse_chars_or_range with no "-": the characters of a string, or one    *)
(* character.                                                              *)
chars_single(first, span1) ==
    IF first.out.t = "String"
    THEN Bind(parse_quoted_text(first.out.s), LAMBDA q :
             IF q.ok THEN Ok(first.inp, CharGroup_from_chars(q.v))
             ELSE Failure(At(q.kind, span1)))
    ELSE Ok(first.inp, CharGroup_from_char(first.out.c))

parse_chars_or_range(inp) ==
    Bind(parse_string_or_char(inp), LAMBDA first :
        IF ~IsOk(first) THEN first
        ELSE Bind(Token_parse("Dash", first.inp), LAMBDA dash :
            IF IsOk(dash)
            THEN Bind(cut(parse_string_or_char(dash.inp)), LAMBDA last :
                     IF ~IsOk(last) THEN last
                     ELSE chars_range(first.out, last, InputSpan(inp),
                                      InputSpan(dash.inp)))
            ELSE chars_single(first, InputSpan(inp))))

(* parse_dot without add_warning.                                          *)
parse_dot_silent(inp) ==
    Bind(Token_parse("Dot", inp), LAMBDA d :
        IF ~IsOk(d) THEN Leaf(d) ELSE Leaf(Ok(d.inp, CharGroup_Dot)))

parse_dot(inp) ==
    Bind(Token_parse("Dot", inp), LAMBDA d :
        IF ~IsOk(d) THEN Leaf(d)
        ELSE [r |-> Ok(d.inp, CharGroup_Dot),
              w |-> <<Warning_at("Deprecation(Dot)", d.out.span)>>])

(* The third alternative of an item: "!"? name                             *)
parse_named_item(inp) ==
    Bind(opt(Token_parse("Not", inp), inp), LAMBDA not :
        Bind(Token_parse("Identifier", not.inp), LAMBDA id :
            IF ~IsOk(id) THEN id
            ELSE Bind(CharGroup_try_from_group_name(id.out.s, not.out.some), LAMBDA g :
                     IF g.ok THEN Ok(id.inp, g.v)
                     ELSE Failure(At(g.kind, InputSpan(inp))))))

(* One item of a class: alt of the four forms.                             *)
parse_char_item(inp) ==
    AltW(Leaf(parse_chars_or_range(inp)),
         AltW(parse_dot(inp),
              AltW(Leaf(parse_named_item(inp)),
                   Leaf(Error(At("CharClass(Invalid)", InputSpan(inp)))))))

(* many0 over the items of a class: the groups parsed, and where it stops. *)
RECURSIVE char_group_items(_, _, _)
char_group_items(inp, ranges, w) ==
    Bind(parse_char_item(inp), LAMBDA item :
        IF IsOk(item.r)
        THEN char_group_items(item.r.inp, Append(ranges, item.r.out), w \o item.w)
        ELSE IF IsFailure(item.r) THEN [r |-> item.r, w |-> w \o item.w]
        ELSE [r |-> Ok(inp, ranges), w |-> w])

RECURSIVE add_all(_, _, _)
add_all(class, ranges, i) ==
    IF i > Len(ranges) THEN [ok |-> TRUE, v |-> class]
    ELSE Bind(CharGroup_add(class, ranges[i]), LAMBDA a :
             IF a.ok THEN add_all(a.v, ranges, i + 1) ELSE a)

(* The class the items of parse_char_group make, from the first on.        *)
char_group_class(ranges) ==
    IF ranges = <<>> THEN [ok |-> TRUE, v |-> Items(<<>>)]
    ELSE add_all(ranges[1], ranges, 2)

parse_char_group(inp) ==
    Bind(char_group_items(inp, <<>>, <<>>), LAMBDA many :
        IF ~IsOk(many.r) THEN many
        ELSE Bind(char_group_class(many.r.out), LAMBDA class :
            Bind(InputSpan(many.r.inp).start, LAMBDA here :
                IF class.ok THEN [r |-> Ok(many.r.inp, class.v), w |-> many.w]
                ELSE [r |-> Failure(At(class.kind,
                                       Join(InputSpan(inp), Span(here, here)))),
                      w |-> many.w])))

(* The closure without its test for an empty Items group.                  *)
char_class_map_unchecked(inner, start, end) ==
    [ok |-> TRUE, v |-> CharClass_new(inner, Join(start, end))]

(* The closure of parse_char_class: a class of no items is refused.        *)
char_class_map(inner, start, end) ==
    IF inner.g = "Items" /\ inner.items = <<>>
    THEN [ok |-> FALSE, kind |-> "CharClass(Empty)"]
    ELSE [ok |-> TRUE, v |-> CharClass_new(inner, Join(start, end))]

(* parse_char_class after "[": the caret check, the items, "]" and the     *)
(* closure.                                                                *)
char_class_body(inp, open) ==
    IF IsOk(Token_parse("Caret", open.inp))
    THEN Leaf(Failure(At("CharClass(CaretInGroup)", InputSpan(open.inp))))
    ELSE Bind(parse_char_group(open.inp), LAMBDA inner :
        Bind(cut(inner.r), LAMBDA g :
            IF ~IsOk(g) THEN [r |-> g, w |-> inner.w]
            ELSE Bind(cut(Token_parse("CloseBracket", g.inp)), LAMBDA close :
                IF ~IsOk(close) THEN [r |-> close, w |-> inner.w]
                ELSE Bind(char_class_map(g.out, open.out.span, close.out.span),
                          LAMBDA m :
                    [r |-> IF m.ok THEN Ok(close.inp, m.v)
                           ELSE Failure(At(m.kind, InputSpan(inp))),
                     w |-> inner.w]))))

parse_char_class(inp) ==
    Bind(Token_parse("OpenBracket", inp), LAMBDA open :
        IF ~IsOk(open) THEN Leaf(open) ELSE char_class_body(inp, open))

-----------------------------------------------------------------------------
(* Ranges.                                                                 *)

U8MaxDigits == <<50, 53, 53>>

RadixMax == 36

RadixMin == 2

RadixDefault == 10

(* The closure of parse_base: the number as a u8 from 2 to 36.             *)
base_map(s) ==
    Bind(from_str(s, U8MaxDigits), LAMBDA n :
        IF ~n.ok \/ n.v > RadixMax THEN [ok |-> FALSE, kind |-> "Number(TooLarge)"]
        ELSE IF n.v < RadixMin THEN [ok |-> FALSE, kind |-> "Number(TooSmall)"]
        ELSE [ok |-> TRUE, v |-> n.v])

(* parse_base: "base" then a number from 2 to 36.                          *)
parse_base(inp) ==
    Bind(str_parse("base", inp), LAMBDA kw :
        IF ~IsOk(kw) THEN kw
        ELSE Bind(cut(Token_parse("Number", kw.inp)), LAMBDA t :
            IF ~IsOk(t) THEN t
            ELSE Bind(base_map(t.out.s), LAMBDA n :
                     IF n.ok THEN Ok(t.inp, [base |-> n.v, span |-> t.out.span])
                     ELSE Failure(At(n.kind, InputSpan(kw.inp))))))

digit_of(c) ==
    IF c >= 48 /\ c <= 57 THEN c - 48
    ELSE IF c >= 97 /\ c <= 122 THEN c - 97 + 10
    ELSE IF c >= 65 /\ c <= 90 THEN c - 65 + 10
    ELSE -1

(* parse_number without the test against the radix.                       *)
parse_number_any_radix(src, radix) ==
    IF \E i \in 1..Len(src) : digit_of(src[i]) < 0
    THEN [ok |-> FALSE, kind |-> "Number(InvalidDigit)"]
    ELSE [ok |-> TRUE, v |-> [i \in 1..Len(src) |-> digit_of(src[i])]]

(* parse_number: the digits of src in the radix, or InvalidDigit.          *)
parse_number(src, radix) ==
    IF \E i \in 1..Len(src) : digit_of(src[i]) < 0 \/ digit_of(src[i]) >= radix
    THEN [ok |-> FALSE, kind |-> "Number(InvalidDigit)"]
    ELSE [ok |-> TRUE, v |-> [i \in 1..Len(src) |-> digit_of(src[i])]]

(* Vec<u8>'s ordering: a > b, for vectors of the same length.              *)
vec_gt(a, b) ==
    \E i \in 1..Len(a) : a[i] > b[i] /\ \A j \in 1..(i - 1) : a[j] = b[j]

(* The test of parse_range's closure.                                      *)
range_not_increasing(start, end) ==
    Len(start) > Len(end) \/ (Len(start) = Len(end) /\ vec_gt(start, end))

(* The closure of parse_range, after the radix is known.                   *)
range_digits(s1, s2, radix, sp) ==
    Bind(parse_number(strip_first_last(s1.s), radix), LAMBDA start :
        IF ~start.ok THEN [ok |-> FALSE, err |-> At(start.kind, s1.span)]
        ELSE Bind(parse_number(strip_first_last(s2.s), radix), LAMBDA end :
            IF ~end.ok THEN [ok |-> FALSE, err |-> At(end.kind, s2.span)]
            ELSE IF range_not_increasing(start.v, end.v)
            THEN [ok |-> FALSE,
                  err |-> At("RangeIsNotIncreasing", Join(s1.span, s2.span))]
            ELSE [ok |-> TRUE, v |-> Range_new(start.v, end.v, radix, sp)]))

range_map(s1, s2, base) ==
    IF base.some THEN range_digits(s1, s2, base.v.base, Join(s1.span, base.v.span))
    ELSE range_digits(s1, s2, RadixDefault, Join(s1.span, s2.span))

(* parse_range after the two strings: the optional base and the closure.   *)
range_rest(kw, s1, s2) ==
    Bind(opt(parse_base(s2.inp), s2.inp), LAMBDA base :
        IF ~IsOk(base) THEN base
        ELSE Bind(range_map(s1.out, s2.out, base.out), LAMBDA m :
                 IF m.ok
                 THEN Ok(base.inp, [m.v EXCEPT !.span = Join(@, kw.out.span)])
                 ELSE Failure(m.err)))

parse_range(inp) ==
    Bind(str_parse("range", inp), LAMBDA kw :
        IF ~IsOk(kw) THEN kw
        ELSE Bind(cut(Token_parse("String", kw.inp)), LAMBDA s1 :
            IF ~IsOk(s1) THEN s1
            ELSE Bind(cut(Token_parse("Dash", s1.inp)), LAMBDA dash :
                IF ~IsOk(dash) THEN dash
                ELSE Bind(cut(Token_parse("String", dash.inp)), LAMBDA s2 :
                    IF ~IsOk(s2) THEN s2 ELSE range_rest(kw, s1, s2)))))

-----------------------------------------------------------------------------
(* parse_atom's alternatives after parse_group, in order.                  *)

(* try_map(Token::Dot, Err(Dot), Failure)                                  *)
atom_dot(inp) ==
    IF IsOk(Token_parse("Dot", inp)) THEN Failure(At("Dot", InputSpan(inp)))
    ELSE Token_parse("Dot", inp)

parse_atom_rest(inp) ==
    AltW(Leaf(parse_string(inp)),
    AltW(parse_char_class(inp),
    AltW(parse_boundary(inp),
    AltW(Leaf(parse_reference(inp)),
    AltW(Leaf(Map(parse_code_point(inp),
                  LAMBDA o : CharClass_new(CharGroup_from_char(o.c), o.span))),
    AltW(Leaf(parse_range(inp)),
    AltW(Leaf(parse_variable(inp)),
    AltW(Leaf(atom_dot(inp)),
         Leaf(Error(At("Expected(expression)", InputSpan(inp))))))))))))

-----------------------------------------------------------------------------
(* The mapping closures of the recursive productions.                      *)

(* The closure without the LonePipe arm: a "|" with no branch would give   *)
(* the empty alternation.                                                  *)
or_map_no_lone_pipe(leading_pipe, rules) ==
    IF Len(rules) = 1 THEN [ok |-> TRUE, rule |-> rules[1]]
    ELSE [ok |-> TRUE, rule |-> Alternation_new_expr(rules)]

(* The closure wrapping whatever branches there are in an Alternation.     *)
or_map_wrapping(leading_pipe, rules) ==
    IF leading_pipe.some /\ rules = <<>>
    THEN [ok |-> FALSE, err |-> At("LonePipe", leading_pipe.v)]
    ELSE [ok |-> TRUE,
          rule |-> Alternation_node(rules,
                       IF rules = <<>> THEN SpanDefault
                       ELSE Join(rules[1].span, rules[Len(rules)].span))]

(* parse_or's closure.                                                     *)
or_map(leading_pipe, rules) ==
    IF Len(rules) = 1 THEN [ok |-> TRUE, rule |-> rules[1]]
    ELSE IF leading_pipe.some /\ rules = <<>>
    THEN [ok |-> FALSE, err |-> At("LonePipe", leading_pipe.v)]
    ELSE [ok |-> TRUE, rule |-> Alternation_new_expr(rules)]

(* parse_sequence's closure.                                               *)
sequence_map(rules) ==
    IF Len(rules) = 1 THEN rules[1]
    ELSE Group_new(rules, None, Join(rules[1].span, rules[Len(rules)].span))

(* The closure without the guard of its second arm: a prefix would set    *)
(* the capture of any group in place, one that captures included.          *)
group_map_overwriting(capture, rule, close_paren) ==
    IF ~capture.some THEN rule
    ELSE IF rule.k = "Group"
    THEN [rule EXCEPT !.capture = Some(capture.v.capture),
                      !.span = Join(capture.v.span, @)]
    ELSE Group_new(<<rule>>, Some(capture.v.capture), Join(capture.v.span, close_paren))

(* parse_group's closure.                                                  *)
group_map(capture, rule, close_paren) ==
    IF ~capture.some THEN rule
    ELSE IF rule.k = "Group" /\ ~rule.capture.some
    THEN [rule EXCEPT !.capture = Some(capture.v.capture),
                      !.span = Join(capture.v.span, @)]
    ELSE Group_new(<<rule>>, Some(capture.v.capture), Join(capture.v.span, close_paren))

(* The duplicate check of parse_modified's closure: the name span of the   *)
(* first let whose name an earlier let has already bound.                  *)
RECURSIVE let_binding_exists(_, _, _)
let_binding_exists(stmts, i, set) ==
    IF i > Len(stmts) THEN None
    ELSE IF stmts[i].stmt.s = "Let"
    THEN IF stmts[i].stmt.name \in set THEN Some(stmts[i].stmt.name_span)
         ELSE let_binding_exists(stmts, i + 1, set \cup {stmts[i].stmt.name})
    ELSE let_binding_exists(stmts, i + 1, set)

RECURSIVE wrap_stmts(_, _, _, _)
wrap_stmts(stmts, i, rule, span_end) ==
    IF i = 0 THEN rule
    ELSE wrap_stmts(stmts, i - 1,
                    StmtExpr_new(stmts[i].stmt, rule, Join(stmts[i].span, span_end)),
                    span_end)

(* The closure with its duplicate check run for more than two statements   *)
(* only.                                                                   *)
modified_map_from_third(stmts, rule) ==
    Bind(IF Len(stmts) > 2 THEN let_binding_exists(stmts, 1, {}) ELSE None, LAMBDA dup :
        IF dup.some THEN [ok |-> FALSE, err |-> At("LetBindingExists", dup.v)]
        ELSE [ok |-> TRUE, rule |-> wrap_stmts(stmts, Len(stmts), rule, rule.span)])

(* The closure of parse_modified: the duplicate check, then the rule       *)
(* wrapped in its statements, the last one innermost.                      *)
modified_map(stmts, rule) ==
    Bind(IF Len(stmts) > 1 THEN let_binding_exists(stmts, 1, {}) ELSE None, LAMBDA dup :
        IF dup.some THEN [ok |-> FALSE, err |-> At("LetBindingExists", dup.v)]
        ELSE [ok |-> TRUE, rule |-> wrap_stmts(stmts, Len(stmts), rule, rule.span)])

(* The first alternative of a statement: ("enable" | "disable") "lazy" ";" *)
parse_modifier(inp) ==
    Bind(Alt(Map(str_parse("enable", inp), LAMBDA o : [s |-> "Enable", span |-> o.span]),
             Map(str_parse("disable", inp), LAMBDA o : [s |-> "Disable", span |-> o.span])),
         LAMBDA kw :
        IF ~IsOk(kw) THEN kw
        ELSE Bind(str_parse("lazy", kw.inp), LAMBDA lazy :
            IF ~IsOk(lazy) THEN lazy
            ELSE Bind(Token_parse("Semicolon", lazy.inp), LAMBDA semi :
                IF ~IsOk(semi) THEN semi
                ELSE Ok(semi.inp,
                        [stmt |-> [s |-> kw.out.s, value |-> "Lazy"],
                         span |-> Join(kw.out.span, semi.out.span)]))))

(* map_err(parse_ident, ..): UnexpectedKeyword becomes KeywordAfterLet.    *)
let_name(id) ==
    IF ~IsOk(id) /\ id.err.kind = "UnexpectedKeyword"
    THEN [id EXCEPT !.err.kind = "KeywordAfterLet"]
    ELSE id

(* The head of a let statement: "let" name "=", cut after the keyword.     *)
parse_let_head(inp) ==
    Bind(str_parse("let", inp), LAMBDA kw :
        IF ~IsOk(kw) THEN kw
        ELSE Bind(cut(let_name(parse_ident(kw.inp))), LAMBDA name :
            IF ~IsOk(name) THEN name
            ELSE Bind(cut(Token_parse("Equals", name.inp)), LAMBDA eq :
                IF ~IsOk(eq) THEN eq
                ELSE Ok(eq.inp, [span_start |-> kw.out.span, name |-> name.out.name,
                                 name_span |-> name.out.span]))))

(* parse_capture: ":" name?                                                *)
parse_capture(inp) ==
    Bind(Token_parse("Colon", inp), LAMBDA colon :
        IF ~IsOk(colon) THEN colon
        ELSE Bind(opt(Token_parse("Identifier", colon.inp), colon.inp), LAMBDA name :
                 Ok(name.inp,
                    [capture |-> [name |-> IF name.out.some THEN Some(name.out.v.s)
                                           ELSE None],
                     span |-> colon.out.span])))

parse_lookaround(inp) ==
    Alt(Map(Token_parse("LookAhead", inp), LAMBDA o : [kind |-> "Ahead", span |-> o.span]),
        Map(Token_parse("LookBehind", inp), LAMBDA o : [kind |-> "Behind", span |-> o.span]))

-----------------------------------------------------------------------------
(* The recursion budget.                                                   *)

RecursionBudget == 256

(* Input::recursion_start: one less, or RecursionLimit when none is left.  *)
recursion_start(inp) ==
    IF inp.rec = 0 THEN [ok |-> FALSE, err |-> At("RecursionLimit", InputSpan(inp))]
    ELSE [ok |-> TRUE, inp |-> [inp EXCEPT !.rec = @ - 1]]

(* Input::recursion_end.                                                   *)
recursion_end(inp) == [inp EXCEPT !.rec = @ + 1]

-----------------------------------------------------------------------------
(* The call stack.                                                         *)

Pending == [status |-> "pending"]

NoEvent == [fn |-> "none"]

Top == stack[Len(stack)]

Pop == SubSeq(stack, 1, Len(stack) - 1)

SetTop(f) == [stack EXCEPT ![Len(stack)] = f]

(* The frame a call of production fn starts with.                          *)
NewFrame(fn, inp) ==
    CASE fn = "parse_modified" ->
            [fn |-> fn, pc |-> "stmts", inp |-> inp, stmts |-> <<>>, head |-> None]
      [] fn = "parse_or" ->
            [fn |-> fn, pc |-> "start", inp |-> inp, leading_pipe |-> None,
             rules |-> <<>>]
      [] fn = "parse_sequence" ->
            [fn |-> fn, pc |-> "start", inp |-> inp, rules |-> <<>>]
      [] fn = "parse_fixes" ->
            [fn |-> fn, pc |-> "start", inp |-> inp, look |-> None]
      [] fn = "parse_atom" ->
            [fn |-> fn, pc |-> "start", inp |-> inp]
      [] fn = "parse_group" ->
            [fn |-> fn, pc |-> "start", inp |-> inp, capture |-> None]

RecurseFrame(inner, inp) == [fn |-> "recurse", pc |-> "start", inp |-> inp, inner |-> inner]

Running == result = Pending /\ stack # <<>>

(* The innermost frame is production fn at place pc and makes a call.      *)
Calling(fn, pc) == Running /\ ret = NoRet /\ Top.fn = fn /\ Top.pc = pc

(* The innermost frame is production fn at place pc and has its call's     *)
(* result.                                                                 *)
Resuming(fn, pc) == Running /\ ret # NoRet /\ Top.fn = fn /\ Top.pc = pc

(* The frame f goes on and calls g.                                        *)
Call(f, g) ==
    /\ stack' = Append(SetTop(f), g)
    /\ ret' = NoRet

(* The innermost frame returns r to its caller.                            *)
Return(r) ==
    /\ stack' = Pop
    /\ ret' = r

-----------------------------------------------------------------------------
(* Expr::parse and parse.                                                  *)

(* Expr::parse calls parse with a budget of 256; parse calls               *)
(* parse_modified on the whole input.                                      *)
Expr_parse ==
    /\ cli.pc \in {"lib", "compile"}
    /\ result = Pending /\ stack = <<>> /\ ret = NoRet
    /\ stack' = <<NewFrame("parse_modified", Input(1, RecursionBudget))>>
    /\ ev' = NoEvent
    /\ UNCHANGED <<toks, ret, warnings, result, cli, lib>>

(* parse without the test of rest.is_empty(): the rule is returned         *)
(* whatever is left.                                                       *)
parse_end_unchecked ==
    /\ result = Pending /\ stack = <<>> /\ ret # NoRet
    /\ result' = IF IsOk(ret)
                 THEN [status |-> "ok", rule |-> ret.out, warnings |-> warnings]
                 ELSE [status |-> "err", err |-> ret.err]
    /\ ret' = NoRet
    /\ ev' = NoEvent
    /\ UNCHANGED <<toks, stack, warnings, cli, lib>>

(* parse, once parse_modified has returned: the rule and the warnings if   *)
(* no token is left, LeftoverTokens otherwise, or the error.  A panic ends *)
(* the parse with no return at all.                                        *)
parse_end ==
    /\ result = Pending /\ stack = <<>> /\ ret # NoRet
    /\ result' = IF IsOk(ret)
                 THEN IF IsEmpty(ret.inp)
                      THEN [status |-> "ok", rule |-> ret.out, warnings |-> warnings]
                      ELSE [status |-> "err",
                            err |-> At("LeftoverTokens", InputSpan(ret.inp))]
                 ELSE IF ret.err.kind = "Panic"
                 THEN [status |-> "panic", site |-> ret.err.site]
                 ELSE [status |-> "err", err |-> ret.err]
    /\ ret' = NoRet
    /\ ev' = NoEvent
    /\ UNCHANGED <<toks, stack, warnings, cli, lib>>

(* recurse without map_err(nom::Err::Failure): an exhausted budget would   *)
(* give an Error, which alt, opt and many0 recover from.                   *)
recurse_start_recoverable ==
    /\ Calling("recurse", "start")
    /\ LET s == recursion_start(Top.inp)
       IN  IF s.ok
           THEN Call([Top EXCEPT !.pc = "wait"], NewFrame(Top.inner, s.inp))
           ELSE Return(Error(s.err))
    /\ ev' = NoEvent
    /\ UNCHANGED <<toks, warnings, result, cli, lib>>

(* recurse: takes one unit of the budget and calls the parser, or fails    *)
(* with RecursionLimit.                                                    *)
recurse_start ==
    /\ Calling("recurse", "start")
    /\ LET s == recursion_start(Top.inp)
       IN  IF s.ok
           THEN Call([Top EXCEPT !.pc = "wait"], NewFrame(Top.inner, s.inp))
           ELSE Return(Failure(s.err))
    /\ ev' = NoEvent
    /\ UNCHANGED <<toks, warnings, result, cli, lib>>

(* recurse without recursion_end: the unit stays taken after the parser.   *)
recurse_end_unrestored ==
    /\ Resuming("recurse", "wait")
    /\ Return(ret)
    /\ ev' = NoEvent
    /\ UNCHANGED <<toks, warnings, result, cli, lib>>

(* recurse, after the parser: gives the unit back if the parser succeeded. *)
recurse_end ==
    /\ Resuming("recurse", "wait")
    /\ Return(IF IsOk(ret) THEN Ok(recursion_end(ret.inp), ret.out) ELSE ret)
    /\ ev' = NoEvent
    /\ UNCHANGED <<toks, warnings, result, cli, lib>>

-----------------------------------------------------------------------------
(* parse_modified.                                                         *)

(* many0 takes an enable or disable statement.                             *)
modified_modifier ==
    /\ Calling("parse_modified", "stmts")
    /\ LET m == parse_modifier(Top.inp)
       IN  /\ IsOk(m)
           /\ stack' = SetTop([Top EXCEPT !.inp = m.inp, !.stmts = Append(@, m.out)])
    /\ ev' = NoEvent
    /\ UNCHANGED <<toks, ret, warnings, result, cli, lib>>

(* many0 takes the head of a let statement and calls recurse(parse_or) for *)
(* its body, or fails on a head cut short.                                 *)
modified_let ==
    /\ Calling("parse_modified", "stmts")
    /\ ~IsOk(parse_modifier(Top.inp))
    /\ LET h == parse_let_head(Top.inp)
       IN  /\ ~IsError(h)
           /\ IF IsOk(h)
              THEN Call([Top EXCEPT !.pc = "let_body", !.head = Some(h.out)],
                        RecurseFrame("parse_or", h.inp))
              ELSE Return(h)
    /\ ev' = NoEvent
    /\ UNCHANGED <<toks, warnings, result, cli, lib>>

(* The body of a let has returned: the ";" and the statement is complete.  *)
modified_let_body ==
    /\ Resuming("parse_modified", "let_body")
    /\ LET body == cut(ret)
           semi == IF IsOk(body) THEN cut(Token_parse("Semicolon", body.inp)) ELSE body
           h == Top.head.v
       IN  IF IsOk(semi)
           THEN /\ stack' = SetTop([Top EXCEPT
                        !.pc = "stmts", !.inp = semi.inp, !.head = None,
                        !.stmts = Append(@, [stmt |-> Let_new(h.name, body.out,
                                                                h.name_span),
                                             span |-> Join(h.span_start,
                                                           semi.out.span)])])
                /\ ret' = NoRet
           ELSE Return(semi)
    /\ ev' = NoEvent
    /\ UNCHANGED <<toks, warnings, result, cli, lib>>

(* many0 ends at the first token that starts no statement; the expression  *)
(* follows.                                                                *)
modified_expr ==
    /\ Calling("parse_modified", "stmts")
    /\ IsError(parse_modifier(Top.inp))
    /\ IsError(parse_let_head(Top.inp))
    /\ Call([Top EXCEPT !.pc = "expr"], RecurseFrame("parse_or", Top.inp))
    /\ ev' = NoEvent
    /\ UNCHANGED <<toks, warnings, result, cli, lib>>

(* The expression has returned: the closure checks the let names and wraps *)
(* the rule in its statements.                                             *)
modified_end ==
    /\ Resuming("parse_modified", "expr")
    /\ LET m == modified_map(Top.stmts, ret.out)
           r == IF ~IsOk(ret) THEN ret
                ELSE IF m.ok THEN Ok(ret.inp, m.rule) ELSE Failure(m.err)
       IN  /\ Return(r)
           /\ ev' = IF IsOk(ret)
                    THEN [fn |-> "parse_modified", stmts |-> Top.stmts]
                    ELSE NoEvent
    /\ UNCHANGED <<toks, warnings, result, cli, lib>>

-----------------------------------------------------------------------------
(* parse_or.                                                               *)

(* opt(Token::Pipe), then separated_list0 calls parse_sequence for its     *)
(* first element.                                                          *)
or_start ==
    /\ Calling("parse_or", "start")
    /\ LET pipe == opt(Token_parse("Pipe", Top.inp), Top.inp)
       IN  Call([Top EXCEPT !.pc = "elem", !.inp = pipe.inp,
                            !.leading_pipe = IF pipe.out.some THEN Some(pipe.out.v.span)
                                             ELSE None],
                NewFrame("parse_sequence", pipe.inp))
    /\ ev' = NoEvent
    /\ UNCHANGED <<toks, warnings, result, cli, lib>>

(* An element has returned Ok and a "|" follows: separated_list0 calls     *)
(* parse_sequence for the next element.  The frame keeps the input before  *)
(* the "|", where the list ends should the element fail.                   *)
or_next ==
    /\ Resuming("parse_or", "elem")
    /\ IsOk(ret)
    /\ LET sep == Token_parse("Pipe", ret.inp)
       IN  /\ IsOk(sep)
           /\ Call([Top EXCEPT !.inp = ret.inp, !.rules = Append(@, ret.out)],
                   NewFrame("parse_sequence", sep.inp))
    /\ ev' = NoEvent
    /\ UNCHANGED <<toks, warnings, result, cli, lib>>

(* The list ends: the element failed, or no "|" follows it.  The closure   *)
(* gives the single branch, LonePipe, or the alternation.                  *)
or_end ==
    /\ Resuming("parse_or", "elem")
    /\ ~(IsOk(ret) /\ IsOk(Token_parse("Pipe", ret.inp)))
    /\ LET rules == IF IsOk(ret) THEN Append(Top.rules, ret.out) ELSE Top.rules
           rest == IF IsOk(ret) THEN ret.inp ELSE Top.inp
           m == or_map(Top.leading_pipe, rules)
           r == IF IsFailure(ret) THEN ret
                ELSE IF m.ok THEN Ok(rest, m.rule) ELSE Failure(m.err)
       IN  /\ Return(r)
           /\ ev' = IF IsFailure(ret) THEN NoEvent
                    ELSE [fn |-> "parse_or", leading_pipe |-> Top.leading_pipe,
                          rules |-> rules]
    /\ UNCHANGED <<toks, warnings, result, cli, lib>>

-----------------------------------------------------------------------------
(* parse_sequence.                                                         *)

(* many1 calls parse_fixes.                                                *)
sequence_call ==
    /\ Calling("parse_sequence", "start")
    /\ Call([Top EXCEPT !.pc = "item"], NewFrame("parse_fixes", Top.inp))
    /\ ev' = NoEvent
    /\ UNCHANGED <<toks, warnings, result, cli, lib>>

(* parse_fixes has returned Ok: many1 keeps the rule and goes round.       *)
sequence_item ==
    /\ Resuming("parse_sequence", "item")
    /\ IsOk(ret)
    /\ IF ret.inp.pos = Top.inp.pos
       THEN Return(Error(At("Nom(Many1)", InputSpan(Top.inp))))
       ELSE /\ stack' = SetTop([Top EXCEPT !.pc = "start", !.inp = ret.inp,
                                           !.rules = Append(@, ret.out)])
            /\ ret' = NoRet
    /\ ev' = NoEvent
    /\ UNCHANGED <<toks, warnings, result, cli, lib>>

(* parse_fixes has failed: with an Error many1 ends, with no rule at all   *)
(* it fails itself; the closure gives the single rule or a group.          *)
sequence_end ==
    /\ Resuming("parse_sequence", "item")
    /\ ~IsOk(ret)
    /\ Return(IF IsError(ret) /\ Top.rules # <<>>
              THEN Ok(Top.inp, sequence_map(Top.rules))
              ELSE ret)
    /\ ev' = NoEvent
    /\ UNCHANGED <<toks, warnings, result, cli, lib>>

-----------------------------------------------------------------------------
(* parse_fixes.                                                            *)

(* First alternative: "!" then opt(recurse(parse_fixes)).                  *)
fixes_not ==
    /\ Calling("parse_fixes", "start")
    /\ LET not == Token_parse("Not", Top.inp)
       IN  /\ IsOk(not)
           /\ Call([Top EXCEPT !.pc = "not"],
                   RecurseFrame("parse_fixes", not.inp))
    /\ ev' = NoEvent
    /\ UNCHANGED <<toks, warnings, result, cli, lib>>

(* The negated expression has returned: it is negated, or there is none.   *)
fixes_not_end ==
    /\ Resuming("parse_fixes", "not")
    /\ LET n == negate(ret.out)
           at == InputSpan(Top.inp)
       IN  Return(IF IsFailure(ret) THEN ret
                  ELSE IF IsError(ret) THEN Failure(At("Expected(expression)", at))
                  ELSE IF n.ok THEN Ok(ret.inp, n.rule)
                  ELSE Failure(At(n.kind, at)))
    /\ ev' = NoEvent
    /\ UNCHANGED <<toks, warnings, result, cli, lib>>

(* Second alternative: ">>" or "<<" then recurse(parse_modified).          *)
fixes_lookaround ==
    /\ Calling("parse_fixes", "start")
    /\ IsError(Token_parse("Not", Top.inp))
    /\ LET look == parse_lookaround(Top.inp)
       IN  /\ IsOk(look)
           /\ Call([Top EXCEPT !.pc = "look", !.look = Some(look.out)],
                   RecurseFrame("parse_modified", look.inp))
    /\ ev' = NoEvent
    /\ UNCHANGED <<toks, warnings, result, cli, lib>>

(* The lookaround's expression has returned.  After an Error alt goes on   *)
(* with the third alternative, from the input parse_fixes started with.    *)
fixes_lookaround_end ==
    /\ Resuming("parse_fixes", "look")
    /\ IF IsError(ret)
       THEN Call([Top EXCEPT !.pc = "atom"], NewFrame("parse_atom", Top.inp))
       ELSE Return(IF IsOk(ret)
                   THEN Ok(ret.inp, Lookaround_new(ret.out, Top.look.v.kind,
                                                   Join(Top.look.v.span, ret.out.span)))
                   ELSE ret)
    /\ ev' = NoEvent
    /\ UNCHANGED <<toks, warnings, result, cli, lib>>

(* Third alternative: parse_atom, then the repetition suffixes.            *)
fixes_atom ==
    /\ Calling("parse_fixes", "start")
    /\ IsError(Token_parse("Not", Top.inp))
    /\ IsError(parse_lookaround(Top.inp))
    /\ Call([Top EXCEPT !.pc = "atom"], NewFrame("parse_atom", Top.inp))
    /\ ev' = NoEvent
    /\ UNCHANGED <<toks, warnings, result, cli, lib>>

(* The atom has returned: many0(parse_repetition) takes the suffixes and   *)
(* the closure checks them and builds the rule.                            *)
fixes_atom_end ==
    /\ Resuming("parse_fixes", "atom")
    /\ IF IsOk(ret)
       THEN LET m == many0_repetition(ret.inp)
                res == fixes_map(m.inp, ret.out, m.out)
            IN  IF IsOk(m)
                THEN /\ Return(res)
                     /\ ev' = [fn |-> "parse_fixes", repetitions |-> m.out]
                ELSE Return(m) /\ ev' = NoEvent
       ELSE Return(ret) /\ ev' = NoEvent
    /\ UNCHANGED <<toks, warnings, result, cli, lib>>

-----------------------------------------------------------------------------
(* parse_atom and parse_group.                                             *)

(* alt's first alternative: parse_group.                                   *)
atom_group ==
    /\ Calling("parse_atom", "start")
    /\ Call([Top EXCEPT !.pc = "group"], NewFrame("parse_group", Top.inp))
    /\ ev' = NoEvent
    /\ UNCHANGED <<toks, warnings, result, cli, lib>>

(* parse_group has returned; after an Error alt tries the other atoms.     *)
atom_end ==
    /\ Resuming("parse_atom", "group")
    /\ LET leaf == parse_atom_rest(Top.inp)
       IN  IF IsError(ret)
           THEN Return(leaf.r) /\ warnings' = warnings \o leaf.w
           ELSE Return(ret) /\ UNCHANGED warnings
    /\ ev' = NoEvent
    /\ UNCHANGED <<toks, result, cli, lib>>

(* opt(parse_capture), "(", then recurse(parse_modified).                  *)
group_open ==
    /\ Calling("parse_group", "start")
    /\ LET capture == opt(parse_capture(Top.inp), Top.inp)
           open == Token_parse("OpenParen", capture.inp)
       IN  IF IsOk(open)
           THEN Call([Top EXCEPT !.pc = "body", !.capture = capture.out],
                     RecurseFrame("parse_modified", open.inp))
           ELSE Return(open)
    /\ ev' = NoEvent
    /\ UNCHANGED <<toks, warnings, result, cli, lib>>

(* The group's body has returned: cut(")"), then the closure.              *)
group_end ==
    /\ Resuming("parse_group", "body")
    /\ LET close == IF IsOk(ret) THEN cut(Token_parse("CloseParen", ret.inp)) ELSE ret
           res == IF IsOk(close)
                  THEN Ok(close.inp, group_map(Top.capture, ret.out, close.out.span))
                  ELSE close
       IN  /\ Return(res)
           /\ ev' = IF IsOk(close)
                    THEN [fn |-> "parse_group", capture |-> Top.capture,
                          rule |-> ret.out]
                    ELSE NoEvent
    /\ UNCHANGED <<toks, warnings, result, cli, lib>>

-----------------------------------------------------------------------------
(* Tokens.                                                                 *)

P(t) == [t |-> t, s |-> ""]

Ident(name) == [t |-> "Identifier", s |-> name]

(* A single-quoted string with the given bytes between the quotes.         *)
Str(bytes) == [t |-> "String", s |-> <<39>> \o bytes \o <<39>>]

Num(bytes) == [t |-> "Number", s |-> bytes]

(* n copies of the sequence s, one after the other.                        *)
Repeat(s, n) == [i \in 1..(n * Len(s)) |-> s[((i - 1) % Len(s)) + 1]]

(* No command line: the library's Expr::parse is called directly.          *)
CliIdle == [pc |-> "lib"]

(* No expression is being compiled.                                        *)
LibIdle == [pc |-> "none"]

ParserNext ==
    \/ Expr_parse \/ parse_end
    \/ recurse_start \/ recurse_end
    \/ modified_modifier \/ modified_let \/ modified_let_body \/ modified_expr
    \/ modified_end
    \/ or_start \/ or_next \/ or_end
    \/ sequence_call \/ sequence_item \/ sequence_end
    \/ fixes_not \/ fixes_not_end \/ fixes_lookaround \/ fixes_lookaround_end
    \/ fixes_atom \/ fixes_atom_end
    \/ atom_group \/ atom_end \/ group_open \/ group_end

ParserInit(inputs) ==
    /\ toks \in inputs
    /\ stack = <<>>
    /\ ret = NoRet
    /\ warnings = <<>>
    /\ result = Pending
    /\ ev = NoEvent

-----------------------------------------------------------------------------
(* The sources the parser is run on, as token streams.                     *)

A == Str(<<97>>)

B == Str(<<98>>)

Star == <<P("Star")>>

QMark == <<P("QuestionMark")>>

RECURSIVE Concats(_, _)
(* The concatenations of at most n members of parts.                       *)
Concats(parts, n) ==
    IF n = 0 THEN {<<>>}
    ELSE {<<>>} \cup {p \o c : p \in parts, c \in Concats(parts, n - 1)}

(* Short repetition chains on one atom, every mix of suffixes.             *)
MaxChain == 3

Suffixes ==
    { QMark, <<P("Plus")>>, Star,
      <<P("OpenBrace"), Num(<<50>>), P("CloseBrace")>>,
      <<P("QuestionMark"), Ident("lazy")>>,
      <<P("Plus"), Ident("greedy")>>,
      Star \o <<Ident("lazy")>> }

ChainInputs == {<<A>> \o c : c \in Concats(Suffixes, MaxChain)}

(* Long chains around the limit of 64: n suffixes, the first k of them "*" *)
(* and the others "?".                                                     *)
ChainUnder == 1

ChainOver == 2

LongChain(n, k) == <<A>> \o Repeat(Star, k) \o Repeat(QMark, n - k)

LongChainInputs ==
    {LongChain(n, k) :
        n \in (RepetitionChainMax - ChainUnder)..(RepetitionChainMax + ChainOver),
        k \in {0, 1, RepetitionChainMax - ChainUnder - 2,
               RepetitionChainMax - ChainUnder}}

(* Nestings around the recursion budget.                                   *)
NestUnder == 1

NestOver == 1

Word == <<P("OpenBracket"), Ident("w"), P("CloseBracket")>>

Groups(n) == Repeat(<<P("OpenParen")>>, n) \o <<A>> \o Repeat(<<P("CloseParen")>>, n)

Captures(n) ==
    Repeat(<<P("Colon"), P("OpenParen")>>, n) \o <<A>> \o Repeat(<<P("CloseParen")>>, n)

Looks(n) == Repeat(<<P("LookAhead")>>, n) \o <<A>>

Nots(n) == Repeat(<<P("Not")>>, n) \o Word

NotLooks(n) == Repeat(<<P("Not"), P("LookBehind")>>, n) \o <<A>>

NestInputs ==
    LET two == (RecursionBudget - 1) \div 2
        three == (RecursionBudget - 1) \div 3
    IN  UNION { {Groups(two + d), Captures(two + d), Looks(two + d),
                 Nots(RecursionBudget - 1 + d), NotLooks(three + d)} :
                d \in (0 - NestUnder)..NestOver }

(* Repetition chains of full length around groups, one in the other, the  *)
(* innermost chain of n suffixes.                                          *)
MaxTower == 4

MaxFirst == 1

Tower(j, n) ==
    Repeat(<<P("OpenParen")>>, j) \o <<A>> \o Repeat(Star, n)
    \o Repeat(<<P("CloseParen")>> \o Repeat(Star, RepetitionChainMax), j)

TowerInputs ==
    {Tower(j, RepetitionChainMax) : j \in 0..MaxTower}
    \cup {Tower(MaxTower, n) : n \in 0..MaxFirst}

(* Statement blocks before an expression, bare and in a group.             *)
MaxStmts == 3

LetStmt(name) == <<Ident("let"), Ident(name), P("Equals"), A, P("Semicolon")>>

ModifierStmt(kw) == <<Ident(kw), Ident("lazy"), P("Semicolon")>>

Stmts == {LetStmt("a"), LetStmt("b"), ModifierStmt("enable"), ModifierStmt("disable")}

StmtInputs ==
    LET blocks == {b \o <<B>> : b \in Concats(Stmts, MaxStmts)}
    IN  blocks \cup {<<P("OpenParen")>> \o b \o <<P("CloseParen")>> : b \in blocks}
               \cup {<<P("LookAhead")>> \o b : b \in blocks}
               \cup {<<Ident("let"), Ident("let")>>, <<Ident("let"), Ident("a"), A>>,
                     <<Ident("let"), Ident("a"), P("Equals"), A, B>>}

(* range expressions over short digit strings.                             *)
MaxDigits == 2

DigitBytes == {<<48>>, <<53>>, <<57>>}

DigitStrings == Concats(DigitBytes, MaxDigits) \ {<<>>}

RangeOf(lo, hi) == <<Ident("range"), Str(lo), P("Dash"), Str(hi)>>

(* Bounds with a base: a digit too large for the base in the lower bound,  *)
(* in the upper bound and in both; the largest digits of base 36 and of    *)
(* base 2; no digit of base 2; base 0; a base too large before a byte that *)
(* is no digit.                                                            *)
BasedBounds ==
    { <<<<57>>, <<55, 55>>, <<56>>>>,
      <<<<48>>, <<57>>, <<56>>>>,
      <<<<56>>, <<57>>, <<56>>>>,
      <<<<97>>, <<90>>, <<51, 54>>>>,
      <<<<97>>, <<122>>, <<51, 53>>>>,
      <<<<48>>, <<49, 48>>, <<50>>>>,
      <<<<48>>, <<50>>, <<50>>>>,
      <<<<48>>, <<49>>, <<48>>>>,
      <<<<33>>, <<33>>, <<51, 55>>>>,
      <<<<65>>, <<97, 48>>, <<49, 49>>>> }

RangeInputs ==
    {RangeOf(lo, hi) : lo \in DigitStrings, hi \in DigitStrings}
    \cup {RangeOf(<<48>>, <<102, 102>>) \o <<Ident("base"), Num(n)>> :
            n \in {<<49, 54>>, <<49>>, <<51, 55>>, <<50, 53, 54>>, <<56>>}}
    \cup {<<Ident("range"), A>>, RangeOf(<<48>>, <<57>>) \o <<Ident("base")>>}
    \cup {RangeOf(b[1], b[2]) \o <<Ident("base"), Num(b[3])>> : b \in BasedBounds}
    \cup {RangeOf(<<48>>, <<97>>), RangeOf(<<45>>, <<57>>), RangeOf(<<>>, <<>>),
          RangeOf(<<>>, <<53>>), RangeOf(<<53>>, <<>>)}

(* Character classes of a few items.                                       *)
MaxItems == 2

ClassItems ==
    { <<Str(<<>>)>>, <<A>>, <<Str(<<97, 98>>)>>, <<Ident("w")>>,
      <<P("Not"), Ident("d")>>, <<P("Dot")>>, <<A, P("Dash"), B>> }

ClassOf(items) == <<P("OpenBracket")>> \o items \o <<P("CloseBracket")>>

(* The sides of a range: no, one, two and three code points.               *)
Sides == {<<>>, <<97>>, <<98>>, <<97, 98>>, <<97, 98, 99>>}

ClassInputs ==
    {ClassOf(c) : c \in Concats(ClassItems, MaxItems)}
    \cup {ClassOf(<<Str(x), P("Dash"), Str(y)>>) : x \in Sides, y \in Sides}
    \cup {ClassOf(<<Str(x)>>) : x \in Sides}
    \cup {ClassOf(<<Str(<<97, 98>>), P("Dash")>>)}
    \cup {ClassOf(<<P("Caret"), A>>), ClassOf(<<B, P("Dash"), A>>),
          ClassOf(<<Ident("x")>>), <<P("OpenBracket"), A>>,
          <<P("OpenParen")>> \o ClassOf(<<>>) \o <<P("CloseParen")>>}

(* Alternations, with and without a leading "|".                           *)
MaxBranches == 3

Branches == {<<A>>, <<B>>, <<A, B>>}

RECURSIVE Alternatives(_)
(* The lists of at most n branches with a "|" between them.                *)
Alternatives(n) ==
    IF n = 0 THEN {<<>>}
    ELSE LET shorter == Alternatives(n - 1)
         IN  shorter \cup Branches
                     \cup {b \o <<P("Pipe")>> \o r : b \in Branches,
                                                       r \in shorter \ {<<>>}}

PipeInputs ==
    LET plain == Alternatives(MaxBranches)
        piped == {<<P("Pipe")>> \o r : r \in plain}
        all == plain \cup piped
    IN  all \cup {<<P("OpenParen")>> \o r \o <<P("CloseParen")>> : r \in all}
            \cup {r \o <<P("Pipe")>> : r \in all}
            \cup {<<P("Pipe"), P("Pipe"), A>>}

(* One of each of the other atoms and errors.                              *)
OtherInputs ==
    { <<Ident("lazy")>>, <<P("Not")>>, <<P("Not"), A>>, <<P("Not"), P("BWord")>>,
      <<P("Not"), P("Not"), P("BWord")>>, <<P("Dot")>>, <<P("BStart"), P("BEnd")>>,
      <<P("Backref"), P("Dash"), Num(<<49>>)>>, <<P("Backref"), Ident("a")>>,
      <<Ident("U41")>>, <<Ident("a"), P("Star"), Ident("lazy")>>,
      <<A, P("OpenBrace"), Num(<<50>>), P("Comma"), Num(<<49>>), P("CloseBrace")>>,
      <<A, P("OpenBrace"), Num(<<50>>), P("Comma"), P("CloseBrace"), P("Plus")>>,
      <<A, P("OpenBrace"), Num(<<50>>)>>,
      <<A, P("OpenBrace"), Num(<<52, 50, 57, 52, 57, 54, 55, 50, 57, 54>>),
        P("CloseBrace")>>,
      <<P("OpenParen"), A>>, <<P("Colon"), Ident("n"), P("OpenParen"), A, B,
                               P("CloseParen")>>,
      <<P("LookBehind"), P("CloseParen")>>,
      <<P("OpenParen"), A, P("CloseParen"), P("CloseParen")>>,
      <<A, B, P("CloseParen"), A>>,
      <<P("OpenParen"), A, P("Pipe"), B, P("CloseParen"), P("Star"), P("CloseParen"), B>>,
      <<A, P("CloseBracket")>>, <<A, P("Semicolon"), B>> }

(* Sources with deprecated syntax: "[.]", "<%" and "%>" in sequences, in a *)
(* group, an alternation, a lookahead and a let, negated and repeated.     *)
MaxDeprecated == 3

Deprecated == {ClassOf(<<P("Dot")>>), <<P("BStart")>>, <<P("BEnd")>>, <<A>>}

DeprecatedInputs ==
    Concats(Deprecated, MaxDeprecated)
    \cup { <<P("OpenParen"), P("BStart"), P("Pipe")>> \o ClassOf(<<P("Dot")>>)
              \o <<P("CloseParen"), P("Star"), P("BEnd")>>,
           <<P("Not")>> \o ClassOf(<<P("Dot")>>) \o <<P("Plus")>>,
           <<P("LookAhead"), P("BStart")>> \o ClassOf(<<P("Dot")>>),
           <<Ident("let"), Ident("a"), P("Equals")>> \o ClassOf(<<P("Dot")>>)
              \o <<P("Semicolon"), P("BStart"), Ident("a"), P("BEnd")>>,
           ClassOf(<<P("Dot"), A, P("Dot")>>),
           <<P("Not"), P("BStart")>>,
           ClassOf(<<P("Dot")>>) \o <<P("CloseParen")>> }

(* More siblings than the budget has units, each entered through recurse  *)
(* and none inside another: groups in a sequence and in an alternation,    *)
(* and negated classes in a sequence.                                      *)
SiblingsOver == 1

Siblings(part, between, n) == part \o Repeat(between \o part, n - 1)

SiblingInputs ==
    { Siblings(Groups(1), <<>>, RecursionBudget + SiblingsOver),
      Siblings(Groups(1), <<P("Pipe")>>, RecursionBudget + SiblingsOver),
      Siblings(Nots(1), <<>>, RecursionBudget + SiblingsOver),
      Siblings(Groups(2), <<>>, SiblingsOver + 1) }

(* Parentheses with and without a capture prefix, one in the other up to  *)
(* MaxCaptureWraps deep, around a string, a sequence, an alternation and   *)
(* nothing, also repeated, after a sibling and as the body of a let.       *)
MaxCaptureWraps == 2

CaptureWraps(x) ==
    { <<P("OpenParen")>> \o x \o <<P("CloseParen")>>,
      <<P("Colon"), P("OpenParen")>> \o x \o <<P("CloseParen")>>,
      <<P("Colon"), Ident("n"), P("OpenParen")>> \o x \o <<P("CloseParen")>>,
      x \o Star,
      <<B>> \o x,
      <<Ident("let"), Ident("a"), P("Equals")>> \o x \o <<P("Semicolon"), A>> }

RECURSIVE CaptureSources(_)
CaptureSources(n) ==
    IF n = 0 THEN {<<A>>, <<A, B>>, <<A, P("Pipe"), B>>, <<>>}
    ELSE LET inner == CaptureSources(n - 1)
         IN  inner \cup UNION {CaptureWraps(x) : x \in inner}

CaptureInputs == CaptureSources(MaxCaptureWraps)

Inputs ==
    ChainInputs \cup LongChainInputs \cup NestInputs \cup TowerInputs
    \cup StmtInputs \cup RangeInputs \cup ClassInputs \cup PipeInputs \cup OtherInputs
    \cup DeprecatedInputs \cup SiblingInputs \cup CaptureInputs

Init ==
    /\ ParserInit(Inputs)
    /\ cli = CliIdle
    /\ lib = LibIdle

Next == ParserNext

Spec == Init /\ [][Next]_vars

-----------------------------------------------------------------------------
(* The command line program.                                               *)

(* A diagnostic, as far as the program looks at it.                        *)
Diagnostic(severity, kind) == [severity |-> severity, kind |-> kind]

(* The kinds a warning can have.                                           *)
WarningKinds == {"Deprecated", "Compat"}

(* What Expr::parse hands out beside the expression: the diagnostics of    *)
(* the parser's warnings, or of its error.                                 *)
Expr_parse_diagnostics(res) ==
    IF res.status = "ok"
    THEN [i \in 1..Len(res.warnings) |-> Diagnostic("Warning", "Deprecated")]
    ELSE <<Diagnostic("Error", "Syntax")>>

(* DiagnosticSet::is_enabled, the set given by the kinds it enables.       *)
is_enabled(set, kind) == kind \in set

CompilationResult_success(output) ==
    [success |-> TRUE, output |-> Some(output), diagnostics |-> <<>>]

CompilationResult_error ==
    [success |-> FALSE, output |-> None, diagnostics |-> <<>>]

with_diagnostics(res, diagnostics) ==
    [res EXCEPT !.diagnostics = @ \o diagnostics]

(* The filter_map of compile: the warnings of an enabled kind.             *)
enabled_warnings(diagnostics, set) ==
    SelectSeq(diagnostics, LAMBDA w : is_enabled(set, w.kind))

(* print_parse_errors with json set.                                       *)
print_parse_errors(diagnostics) ==
    with_diagnostics(CompilationResult_error, diagnostics)

(* The diagnostics that are printed one by one.                            *)
ErrorsShown == 8

(* print_parse_errors without json, counting the diagnostics it printed    *)
(* and no others.                                                          *)
print_parse_errors_text_shown(diagnostics) ==
    Bind(SubSeq(diagnostics, 1, Min(ErrorsShown, Len(diagnostics))), LAMBDA shown :
        [i \in 1..Len(shown) |-> [line |-> "diagnostic", d |-> shown[i]]]
        \o (IF Len(shown) > ErrorsShown THEN <<[line |-> "note"]>> ELSE <<>>)
        \o <<[line |-> "error",
              count |-> IF Len(shown) > 1 THEN Some(Len(shown)) ELSE None]>>)

(* print_parse_errors without json: the lines written to stderr.  The loop *)
(* prints the first ErrorsShown diagnostics and counts them, count() adds  *)
(* the number of those left in the iterator.                               *)
print_parse_errors_text(diagnostics) ==
    Bind(SubSeq(diagnostics, 1, Min(ErrorsShown, Len(diagnostics))), LAMBDA shown :
    Bind(Len(shown) + (Len(diagnostics) - Len(shown)), LAMBDA len :
        [i \in 1..Len(shown) |-> [line |-> "diagnostic", d |-> shown[i]]]
        \o (IF len > ErrorsShown THEN <<[line |-> "note"]>> ELSE <<>>)
        \o <<[line |-> "error", count |-> IF len > 1 THEN Some(len) ELSE None]>>))

(* compile's JSON result when the expression does not compile.             *)
compile_error_json(errors, diagnostics, set) ==
    with_diagnostics(with_diagnostics(CompilationResult_error, errors),
                     enabled_warnings(diagnostics, set))

(* The success result with every warning attached, enabled or not.         *)
compile_success_json_unfiltered(compiled, diagnostics, set) ==
    with_diagnostics(CompilationResult_success(compiled), diagnostics)

(* compile's JSON result when the expression compiles.                     *)
compile_success_json(compiled, diagnostics, set) ==
    with_diagnostics(CompilationResult_success(compiled),
                     enabled_warnings(diagnostics, set))

(* main with the file read before the arguments are looked at.             *)
main_exit_file_first(args_ok, file, readable) ==
    IF file /\ ~readable THEN Some(3)
    ELSE IF ~args_ok THEN Some(2)
    ELSE None

(* main's own exits: 2 when the arguments do not parse, 3 when the input   *)
(* file cannot be read; otherwise compile is called.                       *)
main_exit(args_ok, file, readable) ==
    IF ~args_ok THEN Some(2)
    ELSE IF file /\ ~readable THEN Some(3)
    ELSE None

(* compile's exits: 1 after a parse error, 1 after a compile error, and    *)
(* the return to main, which ends the process with 0.                      *)
compile_exit(parsed, compiled) ==
    IF ~parsed THEN 1
    ELSE IF ~compiled THEN 1
    ELSE 0

(* The sequences over S of at most n members.                              *)
SeqsUpTo(S, n) == UNION {[1..k -> S] : k \in 0..n}

(* What the environment decides: the arguments, the file, and what         *)
(* compiling the parsed expression gives.                                  *)
MaxDiagnostics == 1

Compiled ==
    {[ok |-> TRUE, output |-> "regex", diagnostics |-> d] :
        d \in SeqsUpTo({Diagnostic("Warning", k) : k \in WarningKinds}, MaxDiagnostics)}
    \cup
    {[ok |-> FALSE, diagnostics |-> <<Diagnostic("Error", "Resolve")>> \o d] :
        d \in SeqsUpTo({Diagnostic("Error", "Unsupported")}, MaxDiagnostics)}

CliStart ==
    [pc |-> "main", code |-> 0, args_ok |-> TRUE, file |-> FALSE, readable |-> TRUE,
     json |-> FALSE, warnings |-> {}, compiled |-> None, out |-> None,
     errors |-> <<>>, stderr |-> <<>>]

(* main up to the call of Expr::parse in compile.                          *)
main ==
    /\ cli.pc = "main"
    /\ \E args_ok \in BOOLEAN, file \in BOOLEAN, readable \in BOOLEAN,
          json \in BOOLEAN, set \in SUBSET WarningKinds :
         cli' = Bind(main_exit(args_ok, file, readable), LAMBDA e :
                    [cli EXCEPT !.pc = IF e.some THEN "exit" ELSE "compile",
                                !.code = IF e.some THEN e.v ELSE 0,
                                !.args_ok = args_ok, !.file = file,
                                !.readable = readable, !.json = json,
                                !.warnings = set])
    /\ UNCHANGED <<parserVars, lib>>

(* The errors a source can have beyond the first.                          *)
MaxMoreErrors == 9

(* compile from the return of Expr::parse on: the process ends with the    *)
(* exit code, in JSON mode after the result is written.  A source that     *)
(* does not parse can have more errors than the one the parser stops at;   *)
(* Expr::parse hands them all to print_parse_errors.                       *)
compile ==
    /\ cli.pc = "compile"
    /\ result # Pending
    /\ \E c \in Compiled, more \in 0..MaxMoreErrors :
         cli' = Bind(Expr_parse_diagnostics(result)
                         \o (IF result.status = "err"
                             THEN [i \in 1..more |-> Diagnostic("Error", "Syntax")]
                             ELSE <<>>), LAMBDA diagnostics :
                    IF result.status = "err"
                    THEN [cli EXCEPT
                            !.pc = "exit", !.code = compile_exit(FALSE, FALSE),
                            !.errors = diagnostics,
                            !.out = IF cli.json
                                    THEN Some(print_parse_errors(diagnostics))
                                    ELSE None,
                            !.stderr = IF cli.json THEN <<>>
                                       ELSE print_parse_errors_text(diagnostics)]
                    ELSE IF ~c.ok
                    THEN [cli EXCEPT
                            !.pc = "exit", !.code = compile_exit(TRUE, FALSE),
                            !.compiled = Some(c),
                            !.out = IF cli.json
                                    THEN Some(compile_error_json(c.diagnostics,
                                                  diagnostics, cli.warnings))
                                    ELSE None]
                    ELSE [cli EXCEPT
                            !.pc = "exit", !.code = compile_exit(TRUE, TRUE),
                            !.compiled = Some(c),
                            !.out = IF cli.json
                                    THEN Some(compile_success_json(c.output,
                                                  diagnostics \o c.diagnostics,
                                                  cli.warnings))
                                    ELSE None])
    /\ UNCHANGED <<parserVars, lib>>

(* The sources the program is run on.                                      *)
CliInputs ==
    { ModifierStmt("enable") \o LetStmt("a")
        \o <<P("Colon"), P("OpenParen"), A, P("Star"), P("Pipe"), P("Not"),
             P("LookAhead")>> \o Word \o <<B, P("CloseParen")>>,
      ClassOf(<<P("Dot")>>),
      <<P("Dot")>>,
      <<P("Pipe")>>,
      <<A, P("QuestionMark"), P("QuestionMark")>>,
      <<A, P("Pipe"), B>> }

InitCli ==
    /\ ParserInit(CliInputs)
    /\ cli = CliStart
    /\ lib = LibIdle

NextCli == main \/ compile \/ ParserNext

SpecCli == InitCli /\ [][NextCli]_vars

-----------------------------------------------------------------------------
(* The compiler: Rulex::compile (rulex-lib/src/rule.rs) and Expr::compile  *)
(* (pomsky-lib/src/exprs/mod.rs) on a parsed expression.  Both run the     *)
(* passes over the AST one after the other; a pass that fails ends the     *)
(* call with its error.  The passes of the single node kinds are not part  *)
(* of the sources at hand, except Grapheme's; they follow the design       *)
(* document.                                                               *)

(* The Grapheme expression of rulex-lib, which has a span of its own.      *)
Grapheme_new(sp) == [k |-> "Grapheme", span |-> sp, depth |-> 1]

Flavors == {"Pcre", "JavaScript", "Rust"}

Features == {"grapheme", "lookbehind", "references"}

CompileOptions(flavor, allowed_features) ==
    [flavor |-> flavor, allowed_features |-> allowed_features]

(* CompileErrorKind: Unsupported with its feature and flavor, and the      *)
(* kinds that carry nothing.                                               *)
Unsupported(feature, flavor) ==
    [e |-> "Unsupported", feature |-> feature, flavor |-> flavor]

CompileErrorKind(e) == [e |-> e]

(* A pass that went through with value v, and one that failed with e.      *)
PassOk(v) == [ok |-> TRUE, v |-> v]

PassErr(e) == [ok |-> FALSE, err |-> e]

(* The feature a node by itself needs, its name in the allowed features,   *)
(* and the flavors that lack it.                                           *)
NodeFeature(rule) ==
    IF rule.k = "Grapheme"
    THEN Some([feature |-> "Grapheme", gate |-> "grapheme", lacking |-> {"JavaScript"}])
    ELSE IF rule.k = "Lookaround" /\ rule.kind = "Behind"
    THEN Some([feature |-> "Lookbehind", gate |-> "lookbehind", lacking |-> {"Rust"}])
    ELSE IF rule.k = "Reference"
    THEN Some([feature |-> "Backreference", gate |-> "references", lacking |-> {"Rust"}])
    ELSE None

(* The expressions directly below a node, in source order; the body of a   *)
(* let comes before the expression the let is in scope of.                 *)
Children(rule) ==
    IF rule.k = "Group" THEN rule.parts
    ELSE IF rule.k = "Alternation" THEN rule.rules
    ELSE IF rule.k \in {"Repetition", "Lookaround"} THEN <<rule.rule>>
    ELSE IF rule.k = "StmtExpr"
    THEN (IF rule.stmt.s = "Let" THEN <<rule.stmt.rule>> ELSE <<>>) \o <<rule.rule>>
    ELSE <<>>

(* RuleExt::validate of a node by itself.                                  *)
validate_node(rule, options) ==
    Bind(NodeFeature(rule), LAMBDA f :
        IF f.some /\ (f.v.gate \notin options.allowed_features
                        \/ options.flavor \in f.v.lacking)
        THEN PassErr(At(Unsupported(f.v.feature, options.flavor), rule.span))
        ELSE PassOk(TRUE))

(* RuleExt::validate: the node, then the nodes below it, up to the first   *)
(* that fails.                                                             *)
RECURSIVE validate(_, _)
RECURSIVE validate_each(_, _, _)
validate_each(rules, i, options) ==
    IF i > Len(rules) THEN PassOk(TRUE)
    ELSE Bind(validate(rules[i], options), LAMBDA r :
             IF r.ok THEN validate_each(rules, i + 1, options) ELSE r)

validate(rule, options) ==
    Bind(validate_node(rule, options), LAMBDA r :
        IF r.ok THEN validate_each(Children(rule), 1, options) ELSE r)

(* The group counter and the name map of the capture analysis.             *)
Captures_new == [ok |-> TRUE, count |-> 0, map |-> <<>>]

(* HashMap::contains_key and HashMap::insert on the name map, kept as the  *)
(* sequence of its entries.                                                *)
contains_key(map, name) == \E i \in 1..Len(map) : map[i].name = name

insert(map, name, idx) == Append(map, [name |-> name, idx |-> idx])

(* Group::get_capturing_groups for the group itself: a capturing group     *)
(* takes the next index, a name must be new.                               *)
Group_count(g, st) ==
    IF ~g.capture.some THEN st
    ELSE IF ~g.capture.v.name.some THEN [st EXCEPT !.count = @ + 1]
    ELSE IF contains_key(st.map, g.capture.v.name.v)
    THEN PassErr(At(CompileErrorKind("NameUsedMultipleTimes"), g.span))
    ELSE [st EXCEPT !.count = @ + 1,
                    !.map = insert(@, g.capture.v.name.v, st.count + 1)]

(* The Reference arm with the test left out: a reference passes wherever   *)
(* it stands.                                                              *)
Reference_in_let_allowed(r, st, within_variable) == st

(* The Reference arm of Rulex::get_capturing_groups.                       *)
Reference_in_let(r, st, within_variable) ==
    IF within_variable THEN PassErr(At(CompileErrorKind("ReferenceInLet"), r.span)) ELSE st

(* Rulex::get_capturing_groups; the let of a statement expression hands    *)
(* its body on with within_variable set.                                   *)
RECURSIVE get_capturing_groups(_, _, _)
RECURSIVE get_capturing_groups_each(_, _, _, _)
get_capturing_groups_each(rules, i, st, within_variable) ==
    IF i > Len(rules) THEN st
    ELSE Bind(get_capturing_groups(rules[i], st, within_variable), LAMBDA r :
             IF r.ok THEN get_capturing_groups_each(rules, i + 1, r, within_variable)
             ELSE r)

get_capturing_groups(rule, st, within_variable) ==
    IF rule.k = "Group"
    THEN Bind(Group_count(rule, st), LAMBDA r :
             IF r.ok THEN get_capturing_groups_each(rule.parts, 1, r, within_variable)
             ELSE r)
    ELSE IF rule.k = "Alternation"
    THEN get_capturing_groups_each(rule.rules, 1, st, within_variable)
    ELSE IF rule.k \in {"Repetition", "Lookaround"}
    THEN get_capturing_groups(rule.rule, st, within_variable)
    ELSE IF rule.k = "Reference" THEN Reference_in_let(rule, st, within_variable)
    ELSE IF rule.k = "StmtExpr"
    THEN IF rule.stmt.s = "Let"
         THEN Bind(get_capturing_groups(rule.stmt.rule, st, TRUE), LAMBDA r :
                  IF r.ok THEN get_capturing_groups(rule.rule, r, within_variable)
                  ELSE r)
         ELSE get_capturing_groups(rule.rule, st, within_variable)
    ELSE st

(* The regex IR.                                                           *)
Regex(r, fields) == [r |-> r, f |-> fields]

(* Grapheme::compile for every flavor alike.                               *)
Grapheme_compile_any_flavor(g, options) == PassOk(Regex("Grapheme", <<>>))

(* Grapheme::compile.                                                      *)
Grapheme_compile(g, options) ==
    IF options.flavor = "JavaScript"
    THEN PassErr(At(Unsupported("Grapheme", options.flavor), g.span))
    ELSE PassOk(Regex("Grapheme", <<>>))

(* CompileState as Rulex::compile and CompileState::new build it.          *)
CompileState(used_names, groups_count, variables) ==
    [next_idx |-> 1, used_names |-> used_names, groups_count |-> groups_count,
     default_quantifier |-> "Greedy", variables |-> variables, current_vars |-> {}]

(* The last variable of the name in scope, 0 if there is none.             *)
find_variable(variables, name) ==
    IF \E i \in 1..Len(variables) : variables[i].name = name
    THEN CHOOSE i \in 1..Len(variables) :
            /\ variables[i].name = name
            /\ \A j \in (i + 1)..Len(variables) : variables[j].name # name
    ELSE 0

(* Reference::compile: the group a reference points to must exist.         *)
Reference_compile(r, state) ==
    Bind(IF r.target.t = "Number" THEN r.target.v
         ELSE IF r.target.t = "Relative"
         THEN (IF r.target.v > 0 THEN state.next_idx + r.target.v - 1
               ELSE state.next_idx + r.target.v)
         ELSE IF contains_key(state.used_names, r.target.v) THEN 1 ELSE 0, LAMBDA idx :
        IF idx >= 1 /\ (r.target.t = "Named" \/ idx <= state.groups_count)
        THEN PassOk(Regex("Reference", <<r.target>>))
        ELSE PassErr(At(CompileErrorKind("UnknownReference"), r.span)))

(* What lowering a node gives: the regex, and next_idx for the nodes after  *)
(* it.                                                                     *)
Lowered(v, state) == [ok |-> TRUE, v |-> v, next_idx |-> state.next_idx]

(* Rulex::comp.  The result carries the regex and next_idx, the one field  *)
(* of the state that a node changes for the nodes after it.                *)
RECURSIVE comp(_, _, _)
RECURSIVE comp_each(_, _, _, _, _)
comp_each(rules, i, options, state, acc) ==
    IF i > Len(rules) THEN Lowered(acc, state)
    ELSE Bind(comp(rules[i], options, state), LAMBDA r :
             IF r.ok
             THEN comp_each(rules, i + 1, options,
                            [state EXCEPT !.next_idx = r.next_idx], Append(acc, r.v))
             ELSE r)

Variable_compile(v, options, state) ==
    Bind(find_variable(state.variables, v.name), LAMBDA i :
        IF i = 0 THEN PassErr(At(CompileErrorKind("UnknownVariable"), v.span))
        ELSE IF v.name \in state.current_vars
        THEN PassErr(At(CompileErrorKind("RecursiveVariable"), v.span))
        ELSE comp(state.variables[i].rule, options,
                  [state EXCEPT !.current_vars = @ \cup {v.name}]))

StmtExpr_compile(m, options, state) ==
    IF m.stmt.s = "Let"
    THEN comp(m.rule, options,
              [state EXCEPT !.variables =
                  Append(@, [name |-> m.stmt.name, rule |-> m.stmt.rule])])
    ELSE comp(m.rule, options,
              [state EXCEPT !.default_quantifier =
                  IF m.stmt.s = "Enable" THEN "Lazy" ELSE "Greedy"])

comp(rule, options, state) ==
    IF rule.k = "Grapheme"
    THEN Bind(Grapheme_compile(rule, options), LAMBDA r :
             IF r.ok THEN Lowered(r.v, state) ELSE r)
    ELSE IF rule.k = "Group"
    THEN Bind(comp_each(rule.parts, 1, options,
                        [state EXCEPT !.next_idx =
                            IF rule.capture.some THEN @ + 1 ELSE @], <<>>),
              LAMBDA r :
             IF r.ok THEN [r EXCEPT !.v = Regex("Group", <<rule.capture, r.v>>)] ELSE r)
    ELSE IF rule.k = "Alternation"
    THEN Bind(comp_each(rule.rules, 1, options, state, <<>>), LAMBDA r :
             IF r.ok THEN [r EXCEPT !.v = Regex("Alternation", <<r.v>>)] ELSE r)
    ELSE IF rule.k = "Repetition"
    THEN Bind(comp(rule.rule, options, state), LAMBDA r :
             IF r.ok
             THEN [r EXCEPT !.v = Regex("Repetition",
                        <<r.v, rule.kind,
                          IF rule.quantifier = "Default" THEN state.default_quantifier
                          ELSE rule.quantifier>>)]
             ELSE r)
    ELSE IF rule.k = "Lookaround"
    THEN Bind(comp(rule.rule, options, state), LAMBDA r :
             IF r.ok
             THEN [r EXCEPT !.v = Regex("Lookaround", <<r.v, rule.kind, rule.negative>>)]
             ELSE r)
    ELSE IF rule.k = "Variable" THEN Variable_compile(rule, options, state)
    ELSE IF rule.k = "Reference"
    THEN Bind(Reference_compile(rule, state), LAMBDA r :
             IF r.ok THEN Lowered(r.v, state) ELSE r)
    ELSE IF rule.k = "StmtExpr" THEN StmtExpr_compile(rule, options, state)
    ELSE IF rule.k = "Literal" THEN Lowered(Regex("Literal", <<rule.content>>), state)
    ELSE Lowered(Regex(rule.k, <<rule>>), state)

(* Regex::optimize: the regex without the parts that match nothing but the *)
(* empty string, and its Count.                                            *)
RECURSIVE optimize(_)
RECURSIVE optimize_each(_, _, _)
optimize_each(parts, i, acc) ==
    IF i > Len(parts) THEN acc
    ELSE Bind(optimize(parts[i]), LAMBDA o :
             optimize_each(parts, i + 1,
                           IF o.count = "Zero" THEN acc ELSE Append(acc, o.v)))

optimize(regex) ==
    IF regex.r = "Literal"
    THEN [v |-> regex, count |-> IF regex.f[1] = <<>> THEN "Zero" ELSE "One"]
    ELSE IF regex.r = "Group"
    THEN Bind(optimize_each(regex.f[2], 1, <<>>), LAMBDA parts :
             [v |-> Regex("Group", <<regex.f[1], parts>>),
              count |-> IF parts = <<>> /\ ~regex.f[1].some THEN "Zero" ELSE "One"])
    ELSE IF regex.r = "Repetition"
    THEN Bind(optimize(regex.f[1]), LAMBDA o :
             [v |-> Regex("Repetition", <<o.v, regex.f[2], regex.f[3]>>),
              count |-> IF o.count = "Zero" THEN "Zero" ELSE "Many"])
    ELSE [v |-> regex, count |-> "One"]

(* Regex::codegen: the regex as the pieces of its text, each a piece of    *)
(* fixed syntax or a name, the bytes of a literal, or a node written by    *)
(* its own rules.                                                          *)
Syntax(s) == [syntax |-> s]

Bytes(b) == [bytes |-> b]

RECURSIVE codegen(_, _)
RECURSIVE codegen_each(_, _, _, _)
codegen_each(parts, i, sep, flavor) ==
    IF i > Len(parts) THEN <<>>
    ELSE (IF i > 1 THEN sep ELSE <<>>) \o codegen(parts[i], flavor)
         \o codegen_each(parts, i + 1, sep, flavor)

codegen(regex, flavor) ==
    IF regex.r = "Literal" THEN <<Bytes(regex.f[1])>>
    ELSE IF regex.r = "Grapheme" THEN <<Syntax("\\X")>>
    ELSE IF regex.r = "Group"
    THEN (IF ~regex.f[1].some THEN <<Syntax("(?:")>>
          ELSE IF ~regex.f[1].v.name.some THEN <<Syntax("(")>>
          ELSE <<Syntax(IF flavor = "JavaScript" THEN "(?<" ELSE "(?P<"),
                 Syntax(regex.f[1].v.name.v), Syntax(">")>>)
         \o codegen_each(regex.f[2], 1, <<>>, flavor) \o <<Syntax(")")>>
    ELSE IF regex.r = "Alternation"
    THEN codegen_each(regex.f[1], 1, <<Syntax("|")>>, flavor)
    ELSE IF regex.r = "Repetition"
    THEN codegen(regex.f[1], flavor) \o <<[repeat |-> regex.f[2]]>>
         \o (IF regex.f[3] = "Lazy" THEN <<Syntax("?")>> ELSE <<>>)
    ELSE IF regex.r = "Lookaround"
    THEN <<Syntax("(?"), [look |-> regex.f[2], negative |-> regex.f[3]]>>
         \o codegen(regex.f[1], flavor) \o <<Syntax(")")>>
    ELSE <<[node |-> regex]>>

(* Rulex::compile: the capture analysis from an empty name map and a       *)
(* counter of 0, the lowering with a new CompileState, the code            *)
(* generation into a new buffer.                                           *)
Rulex_compile(rule, options) ==
    Bind(get_capturing_groups(rule, Captures_new, FALSE), LAMBDA g :
        IF ~g.ok THEN PassErr(g.err)
        ELSE Bind(comp(rule, options, CompileState(g.map, g.count, <<>>)), LAMBDA c :
                 IF ~c.ok THEN PassErr(c.err)
                 ELSE PassOk(codegen(c.v, options.flavor))))

(* CompileError::diagnostic.                                               *)
diagnostic(e) == [severity |-> "Error", kind |-> e.kind, span |-> e.span]

(* The builtins table of Expr::compile; its nodes have the empty span.     *)
builtins ==
    Bind(Grapheme_new(SpanDefault), LAMBDA grapheme :
    Bind(CharClass_new(Items(<<Item_Named("Space", FALSE), Item_Named("Space", TRUE)>>),
                       SpanDefault), LAMBDA codepoint :
        << [name |-> "Start", rule |-> Boundary_new("Start", SpanDefault)],
           [name |-> "End", rule |-> Boundary_new("End", SpanDefault)],
           [name |-> "Grapheme", rule |-> grapheme],
           [name |-> "G", rule |-> grapheme],
           [name |-> "Codepoint", rule |-> codepoint],
           [name |-> "C", rule |-> codepoint] >>))

(* The stages of Expr::compile in the order of its text.                   *)
Stages == <<"validate", "captures", "lower", "optimize", "codegen">>

(* A parsed expression that no compile has been called on yet.             *)
LibStart(expr) ==
    [pc |-> "idle", expr |-> expr, calls |-> 0, options |-> None, stages |-> <<>>,
     used_names |-> <<>>, groups_count |-> 0, compiled |-> None, out |-> None,
     results |-> {}]

(* A call returns out; the caller notes it with the options of the call.   *)
LibReturn(l, api, options, out) ==
    [l EXCEPT !.pc = "idle", !.out = Some(out),
              !.results = @ \cup {[api |-> api, options |-> options, out |-> out]}]

(* The stage a call of Expr::compile enters.                               *)
LibStage(l, stage) == [l EXCEPT !.stages = Append(@, stage)]

MaxCalls == 2

(* The options of the calls.                                               *)
Options ==
    {CompileOptions(f, Features) : f \in Flavors}
    \cup {CompileOptions("Pcre", Features \ {"grapheme"})}

(* The caller calls Rulex::compile.                                        *)
Rulex_compile_call ==
    /\ lib.pc = "idle" /\ lib.calls < MaxCalls
    /\ \E options \in Options :
         lib' = LibReturn([lib EXCEPT !.calls = @ + 1, !.options = Some(options),
                                      !.stages = <<>>],
                          "Rulex", options, Rulex_compile(lib.expr, options))
    /\ UNCHANGED <<parserVars, cli>>

(* The caller calls Expr::compile.                                         *)
Expr_compile ==
    /\ lib.pc = "idle" /\ lib.calls < MaxCalls
    /\ \E options \in Options :
         lib' = [lib EXCEPT !.pc = "validate", !.calls = @ + 1,
                            !.options = Some(options), !.stages = <<>>, !.out = None]
    /\ UNCHANGED <<parserVars, cli>>

(* The validation with its error put aside: the capture analysis follows   *)
(* whatever validate returned.                                             *)
Expr_compile_validate_unchecked ==
    /\ lib.pc = "validate"
    /\ lib' = [LibStage(lib, "validate") EXCEPT !.pc = "captures"]
    /\ UNCHANGED <<parserVars, cli>>

(* self.0.validate(&options)                                               *)
Expr_compile_validate ==
    /\ lib.pc = "validate"
    /\ lib' = Bind(validate(lib.expr, lib.options.v), LAMBDA r :
                  IF r.ok THEN [LibStage(lib, "validate") EXCEPT !.pc = "captures"]
                  ELSE LibReturn(LibStage(lib, "validate"), "Expr", lib.options.v,
                                 PassErr(diagnostic(r.err))))
    /\ UNCHANGED <<parserVars, cli>>

(* The capture analysis with the name map and the counter of an earlier    *)
(* call.                                                                   *)
Expr_compile_captures_kept ==
    /\ lib.pc = "captures"
    /\ lib' = Bind(get_capturing_groups(lib.expr,
                       [ok |-> TRUE, count |-> lib.groups_count, map |-> lib.used_names],
                       FALSE), LAMBDA r :
                  IF r.ok
                  THEN [LibStage(lib, "captures") EXCEPT
                            !.pc = "lower", !.used_names = r.map, !.groups_count = r.count]
                  ELSE LibReturn(LibStage(lib, "captures"), "Expr", lib.options.v,
                                 PassErr(diagnostic(r.err))))
    /\ UNCHANGED <<parserVars, cli>>

(* A new name map and counter, and get_capturing_groups on them.           *)
Expr_compile_captures ==
    /\ lib.pc = "captures"
    /\ lib' = Bind(get_capturing_groups(lib.expr, Captures_new, FALSE), LAMBDA r :
                  IF r.ok
                  THEN [LibStage(lib, "captures") EXCEPT
                            !.pc = "lower", !.used_names = r.map, !.groups_count = r.count]
                  ELSE LibReturn(LibStage(lib, "captures"), "Expr", lib.options.v,
                                 PassErr(diagnostic(r.err))))
    /\ UNCHANGED <<parserVars, cli>>

(* The builtins, a new CompileState, and the lowering.                     *)
Expr_compile_lower ==
    /\ lib.pc = "lower"
    /\ lib' = Bind(comp(lib.expr, lib.options.v,
                        CompileState(lib.used_names, lib.groups_count, builtins)),
                   LAMBDA r :
                  IF r.ok
                  THEN [LibStage(lib, "lower") EXCEPT
                            !.pc = "optimize", !.compiled = Some(r.v)]
                  ELSE LibReturn(LibStage(lib, "lower"), "Expr", lib.options.v,
                                 PassErr(diagnostic(r.err))))
    /\ UNCHANGED <<parserVars, cli>>

(* compiled.optimize()                                                     *)
Expr_compile_optimize ==
    /\ lib.pc = "optimize"
    /\ lib' = Bind(optimize(lib.compiled.v), LAMBDA o :
                  [LibStage(lib, "optimize") EXCEPT
                      !.pc = "codegen", !.compiled = Some(o)])
    /\ UNCHANGED <<parserVars, cli>>

(* The code generation, unless the count is zero, and the return.          *)
Expr_compile_codegen ==
    /\ lib.pc = "codegen"
    /\ lib' = LibReturn(LibStage(lib, "codegen"), "Expr", lib.options.v,
                        PassOk(IF lib.compiled.v.count # "Zero"
                               THEN codegen(lib.compiled.v.v, lib.options.v.flavor)
                               ELSE <<>>))
    /\ UNCHANGED <<parserVars, cli>>

(* The expressions compile is called on.  Every node has a span of its     *)
(* own: the leaf at position p has the span p to p + 1, a node around      *)
(* others starts one before them.  A let body holds no capturing group.    *)
Pos(p) == Span(p, p + 1)

Lit(p) == Literal_new(<<97>>, Pos(p))

Named(target) == [t |-> "Named", v |-> target]

Leaves(p) ==
    << Lit(p),
       Literal_new(<<>>, Pos(p)),
       Grapheme_new(Pos(p)),
       Reference_new(Named("n"), Pos(p)),
       Reference_new([t |-> "Number", v |-> 2], Pos(p)),
       Variable_new("x", Pos(p)),
       Variable_new("G", Pos(p)),
       Group_new(<<Literal_new(<<98>>, Pos(p))>>, Some([name |-> Some("n")]), Pos(p)),
       Lookaround_new(Literal_new(<<98>>, Pos(p)), "Behind", Pos(p)) >>

Wraps == <<"none", "group", "alternation", "repetition", "lookaround", "modifier">>

Wrap(w, rule) ==
    Bind(Span(rule.span.start - 1, rule.span.end), LAMBDA sp :
        IF w = "group" THEN Group_new(<<Lit(sp.start), rule>>, None, sp)
        ELSE IF w = "alternation" THEN Alternation_node(<<Lit(sp.start), rule>>, sp)
        ELSE IF w = "repetition"
        THEN Repetition_new(rule, RepetitionKind(0, Some(1)), "Default", sp)
        ELSE IF w = "lookaround" THEN Lookaround_new(rule, "Ahead", sp)
        ELSE IF w = "modifier"
        THEN StmtExpr_new([s |-> "Enable", value |-> "Lazy"], rule, sp)
        ELSE rule)

LetExpr(name, body, rule) ==
    StmtExpr_new(Let_new(name, body, Pos(body.span.start - 2)), rule,
                 Span(body.span.start - 3, rule.span.end))

(* The i-th of the pairs of an element of s and an element of t.           *)
Left(i, t) == ((i - 1) \div Len(t)) + 1

Right(i, t) == ((i - 1) % Len(t)) + 1

BodyLeaves == <<Lit(10), Reference_new(Named("n"), Pos(10)), Variable_new("x", Pos(10))>>

Bodies ==
    [i \in 1..(Len(Wraps) * Len(BodyLeaves)) |->
        Wrap(Wraps[Left(i, BodyLeaves)], BodyLeaves[Right(i, BodyLeaves)])]
    \o << Wrap("group", Wrap("repetition", Wrap("alternation",
              Wrap("lookaround", Wrap("modifier",
                  Reference_new([t |-> "Number", v |-> 1], Pos(10))))))),
          LetExpr("y", Reference_new(Named("n"), Pos(8)), Lit(10)) >>

ScopeLeaves ==
    <<Lit(20), Grapheme_new(Pos(20)), Reference_new(Named("n"), Pos(20)),
      Variable_new("x", Pos(20)), Variable_new("y", Pos(20))>>

Exprs ==
    [i \in 1..(Len(Wraps) * Len(Leaves(20))) |->
        Wrap(Wraps[Left(i, Leaves(20))], Leaves(20)[Right(i, Leaves(20))])]
    \o [i \in 1..(Len(Leaves(20)) * Len(Leaves(30))) |->
        Group_new(<<Leaves(20)[Left(i, Leaves(30))], Leaves(30)[Right(i, Leaves(30))]>>,
                  None, Span(19, 31))]
    \o [i \in 1..(Len(Bodies) * Len(ScopeLeaves)) |->
        LetExpr("x", Bodies[Left(i, ScopeLeaves)], ScopeLeaves[Right(i, ScopeLeaves)])]
    \o << Group_new(<<Leaves(20)[8], Leaves(30)[8],
                       LetExpr("x", Reference_new(Named("n"), Pos(40)), Lit(50))>>,
                     None, Span(19, 51)),
          Group_new(<<Leaves(20)[8],
                       LetExpr("x", Reference_new(Named("n"), Pos(40)),
                               Variable_new("x", Pos(50)))>>,
                     None, Span(19, 51)) >>

InitLib ==
    /\ toks = <<>> /\ stack = <<>> /\ ret = NoRet /\ warnings = <<>>
    /\ result = Pending /\ ev = NoEvent /\ cli = CliIdle
    /\ \E i \in 1..Len(Exprs) : lib = LibStart(Exprs[i])

NextLib ==
    \/ Rulex_compile_call
    \/ Expr_compile
    \/ Expr_compile_validate
    \/ Expr_compile_captures
    \/ Expr_compile_lower
    \/ Expr_compile_optimize
    \/ Expr_compile_codegen

SpecLib == InitLib /\ [][NextLib]_vars

-----------------------------------------------------------------------------
(* The code field of a diagnostic in the JSON output                       *)
(* (pomsky-bin/src/result/serde_code.rs).  A string is the sequence of its *)
(* bytes.  DiagnosticCode, its Display and its TryFrom<u16> are in         *)
(* pomsky::diagnose and not part of the sources: a code is a number of     *)
(* DiagnosticCodes and is displayed as "P" and its decimal digits, filled  *)
(* up with zeros to CodeDigits digits.                                     *)

CodeDigits == 3

U16Max == 65535

DiagnosticCodes == {1, 2, 12, 100, 101, 305, 1000}

(* The decimal digits of n.                                                *)
RECURSIVE Decimal(_)
Decimal(n) ==
    IF n < 10 THEN <<48 + n>> ELSE Append(Decimal(n \div 10), 48 + (n % 10))

(* Display of a DiagnosticCode.                                            *)
DiagnosticCode_display(code) ==
    Bind(Decimal(code), LAMBDA digits :
        <<80>> \o Repeat(<<48>>, Max(0, CodeDigits - Len(digits))) \o digits)

(* DiagnosticCode::try_from(u16)                                           *)
DiagnosticCode_try_from(n) ==
    IF n \in DiagnosticCodes THEN PassOk(n) ELSE PassErr("invalid code")

(* What a Serializer writes: a string or null.                             *)
JsonString(s) == [json |-> "string", s |-> s]

JsonNull == [json |-> "null"]

(* serialize: collect_str of a code that is there, serialize_none else.    *)
serialize(value) ==
    IF value.some THEN JsonString(DiagnosticCode_display(value.v)) ELSE JsonNull

(* str::trim_start_matches("P")                                            *)
RECURSIVE trim_start_matches_P(_)
trim_start_matches_P(v) ==
    IF v # <<>> /\ v[1] = 80 THEN trim_start_matches_P(Tail(v)) ELSE v

(* str::parse::<u16>(): an optional "+", then one decimal digit or more,   *)
(* with a value of at most U16Max.                                         *)
parse_u16(v) ==
    Bind(IF v # <<>> /\ v[1] = 43 THEN Tail(v) ELSE v, LAMBDA digits :
        IF digits = <<>> THEN PassErr("Empty")
        ELSE IF \E i \in 1..Len(digits) : digits[i] < 48 \/ digits[i] > 57
        THEN PassErr("InvalidDigit")
        ELSE IF Len(StripZeros(digits)) > 5 \/ DecValue(StripZeros(digits), 0) > U16Max
        THEN PassErr("PosOverflow")
        ELSE PassOk(DecValue(digits, 0)))

(* CodeVisitor::visit_borrowed_str                                         *)
visit_borrowed_str(v) ==
    Bind(parse_u16(trim_start_matches_P(v)), LAMBDA n :
        Bind(IF n.ok THEN DiagnosticCode_try_from(n.v) ELSE PassErr("()"), LAMBDA code :
            IF code.ok THEN code ELSE PassErr([invalid_value |-> v])))

(* The methods of Visitor that CodeVisitor leaves as they are: each        *)
(* refuses what it is given.                                               *)
visit_default(wire) == PassErr([invalid_type |-> wire.json])

(* The ways a Deserializer can hand a string to the visitor on             *)
(* deserialize_str: borrowed from its input, or as a transient or owned    *)
(* string that it had to build.                                            *)
Deliveries == {"visit_borrowed_str", "visit_str"}

(* d.deserialize_str(CodeVisitor): the visitor gets what the input holds.  *)
deserialize_str(wire, delivery) ==
    IF wire.json = "string" /\ delivery = "visit_borrowed_str"
    THEN visit_borrowed_str(wire.s)
    ELSE visit_default(wire)

(* deserialize: what the visitor gives, in Some.                           *)
deserialize(wire, delivery) ==
    Bind(deserialize_str(wire, delivery), LAMBDA r :
        IF r.ok THEN PassOk(Some(r.v)) ELSE r)

(* The strings a reader of the JSON may find in the field, besides those   *)
(* that serialize writes: all of up to MaxCodeLen of a few bytes, and some *)
(* around the largest u16.                                                 *)
MaxCodeLen == 4

CodeBytes == {80, 48, 49, 50, 43, 45}

CodeStrings ==
    UNION {[1..n -> CodeBytes] : n \in 0..MaxCodeLen}
    \cup { <<80, 54, 53, 53, 51, 53>>, <<80, 54, 53, 53, 51, 54>>,
           <<80, 48, 48, 48, 48, 49, 48, 48>>, <<80, 49, 48, 48, 48>>,
           <<80, 51, 48, 53>>, <<51, 48, 53>>, <<80, 80, 51, 48, 53>>,
           <<80, 51, 48, 53, 80>>, <<112, 51, 48, 53>>, <<80, 32, 51, 48, 53>> }

(* A field before it is written, and a field as a reader finds it.         *)
CodeValue(value) ==
    [pc |-> "value", value |-> Some(value), wire |-> None, delivery |-> None,
     back |-> None]

CodeWire(wire) ==
    [pc |-> "wire", value |-> None, wire |-> Some(wire), delivery |-> None,
     back |-> None]

InitCode ==
    /\ toks = <<>> /\ stack = <<>> /\ ret = NoRet /\ warnings = <<>>
    /\ result = Pending /\ ev = NoEvent /\ lib = LibIdle
    /\ \/ \E code \in DiagnosticCodes : cli = CodeValue(Some(code))
       \/ cli = CodeValue(None)
       \/ \E s \in CodeStrings : cli = CodeWire(JsonString(s))
       \/ cli = CodeWire(JsonNull)

(* The field is written.                                                   *)
code_serialize ==
    /\ cli.pc = "value"
    /\ cli' = [cli EXCEPT !.pc = "wire", !.wire = Some(serialize(cli.value.v))]
    /\ UNCHANGED <<parserVars, lib>>

(* The field is read.                                                      *)
code_deserialize ==
    /\ cli.pc = "wire"
    /\ \E delivery \in Deliveries :
          cli' = [cli EXCEPT !.pc = "read",
                             !.back = Some(deserialize(cli.wire.v, delivery)),
                             !.delivery = Some(delivery)]
    /\ UNCHANGED <<parserVars, lib>>

NextCode == code_serialize \/ code_deserialize

SpecCode == InitCode /\ [][NextCode]_vars

-----------------------------------------------------------------------------
(* Properties.  A property of a production is stated on ev, the closure   *)
(* that the last step ran with its arguments, on ret, which is then what   *)
(* the closure returned, and on the tokens the arguments span.             *)

(* The symbol a repetition suffix starts with.                             *)
SuffixSymbol(r) == toks[r.span.start].t

(* The suffix ends with a greedy or lazy keyword.                          *)
SuffixHasKeyword(r) == toks[r.span.end - 1].t = "Identifier"

SuffixIsMark(r) == SuffixSymbol(r) \in {"QuestionMark", "Plus"}

(* The error the sequencing rule gives for the suffix r.                   *)
SuffixError(r) ==
    Failure(At(IF SuffixSymbol(r) = "QuestionMark"
               THEN "Repetition(QuestionMarkAfterRepetition)"
               ELSE "Repetition(PlusAfterRepetition)", r.span))

IsRepetitionError(res) ==
    /\ IsFailure(res)
    /\ res.err.kind \in {"Repetition(QuestionMarkAfterRepetition)",
                         "Repetition(PlusAfterRepetition)"}

(* The first index in 1..n that satisfies Q, n + 1 if there is none.       *)
FirstIndex(n, Q(_)) ==
    IF \E i \in 1..n : Q(i) THEN CHOOSE i \in 1..n : Q(i) /\ \A j \in 1..(i - 1) : ~Q(j)
    ELSE n + 1

(* A chain short enough for the sequencing rule to be reached.             *)
ChainChecked == ev.fn = "parse_fixes" /\ Len(ev.repetitions) <= RepetitionChainMax

(* Suffix i is a "?" or "+" directly after a suffix without a keyword.     *)
MarkAfterBare(reps, i) ==
    i > 1 /\ SuffixIsMark(reps[i]) /\ ~SuffixHasKeyword(reps[i - 1])

(* The same, and suffix i has no keyword of its own either.                *)
BareMarkAfterBare(reps, i) == MarkAfterBare(reps, i) /\ ~SuffixHasKeyword(reps[i])

(* C1 as claimed: in a chain that gets past the length check, the first    *)
(* "?" or "+" suffix, with or without a keyword of its own, that comes     *)
(* directly after a suffix without a keyword is rejected with the error of *)
(* its symbol, and a chain with no such suffix is not rejected by the      *)
(* sequencing rule.                                                        *)
C1_AsClaimed ==
    ChainChecked =>
        Bind(FirstIndex(Len(ev.repetitions),
                        LAMBDA i : MarkAfterBare(ev.repetitions, i)), LAMBDA f :
            IF f <= Len(ev.repetitions) THEN ret = SuffixError(ev.repetitions[f])
            ELSE ~IsRepetitionError(ret))

(* C1: in a chain that gets past the length check, the first "?" or "+"    *)
(* suffix with no greedy/lazy keyword of its own that comes directly after *)
(* a suffix without a keyword is rejected, with QuestionMarkAfterRepetition*)
(* for "?" and PlusAfterRepetition for "+", at that suffix; a chain with   *)
(* no such suffix is accepted, so a "?" or "+" may follow a suffix that    *)
(* ends with a keyword, may follow any suffix when it carries a keyword    *)
(* itself, and the first suffix is never rejected.                         *)
C1_RepetitionSequencing ==
    ChainChecked =>
        Bind(FirstIndex(Len(ev.repetitions),
                        LAMBDA i : BareMarkAfterBare(ev.repetitions, i)), LAMBDA f :
            IF f <= Len(ev.repetitions) THEN ret = SuffixError(ev.repetitions[f])
            ELSE IsOk(ret))

(* A "+" is rejected directly after a braced suffix.                       *)
C1_Witness ==
    /\ ChainChecked
    /\ \E i \in 2..Len(ev.repetitions) :
          /\ BareMarkAfterBare(ev.repetitions, i)
          /\ SuffixSymbol(ev.repetitions[i]) = "Plus"
          /\ SuffixSymbol(ev.repetitions[i - 1]) = "OpenBrace"
          /\ ret = SuffixError(ev.repetitions[i])

(* C2: a chain of more than 64 suffixes is rejected with RecursionLimit at *)
(* the span from the 65th suffix to the last, whatever "?" or "+" it       *)
(* holds; a chain of at most 64 is never rejected with RecursionLimit.     *)
C2_ChainLimit ==
    ev.fn = "parse_fixes" =>
        IF Len(ev.repetitions) > 64
        THEN ret = Failure(At("RecursionLimit",
                                 Span(ev.repetitions[65].span.start,
                                      ev.repetitions[Len(ev.repetitions)].span.end)))
        ELSE ~(IsFailure(ret) /\ ret.err.kind = "RecursionLimit")

(* A chain of 65 suffixes with a "?" directly after a "?" gets             *)
(* RecursionLimit.                                                         *)
C2_Witness ==
    /\ ev.fn = "parse_fixes"
    /\ Len(ev.repetitions) = 65
    /\ \E i \in 2..65 : BareMarkAfterBare(ev.repetitions, i)
    /\ IsFailure(ret) /\ ret.err.kind = "RecursionLimit"

(* C3 as claimed: an AST that Expr::parse returns has no path from its     *)
(* root to a leaf with more than 256 nodes above the leaf.                 *)
C3_AsClaimed == result.status = "ok" => result.rule.depth - 1 <= 256

(* The two frames at the top of the stack: where a production is entered   *)
(* from, and with what budget.                                             *)
DescentDecrements ==
    /\ stack # <<>> =>
          /\ stack[1].fn = "parse_modified"
          /\ stack[1].inp.rec = 256
    /\ Len(stack) >= 2 =>
          Bind(stack[Len(stack) - 1], LAMBDA caller :
              /\ Top.fn \in {"parse_or", "parse_modified"} => caller.fn = "recurse"
              /\ Top.fn = "parse_fixes" => caller.fn \in {"recurse", "parse_sequence"}
              /\ Top.fn = "recurse" =>
                    caller.fn \in {"parse_modified", "parse_fixes", "parse_group"}
              /\ Top.inp.rec = IF caller.fn = "recurse" THEN caller.inp.rec - 1
                               ELSE caller.inp.rec
              /\ Top.inp.rec >= 0)

IsRecursionLimit(r) == IsFailure(r) /\ r.err.kind = "RecursionLimit"

(* A descent with no budget left fails with RecursionLimit where it stands,*)
(* and a RecursionLimit failure goes up frame by frame, unchanged, into    *)
(* the result of the parse.                                                *)
ExhaustionIsFatal ==
    /\ (Calling("recurse", "start") /\ Top.inp.rec = 0) =>
          /\ ret' = Failure(At("RecursionLimit", InputSpan(Top.inp)))
          /\ stack' = Pop
    /\ (ret # NoRet /\ IsRecursionLimit(ret)) =>
          IF stack = <<>>
          THEN result' = [status |-> "err", err |-> ret.err]
          ELSE stack' = Pop /\ ret' = ret /\ result' = result

(* C4: the parse starts with a budget of 256; the expression of a block,   *)
(* the body of a let, of a group and of a lookaround, and the fix after    *)
(* "!" are entered through recurse with one unit less than their caller    *)
(* has, every other call hands the budget on as it is; a descent at budget *)
(* 0 fails with RecursionLimit, and that failure ends the parse: no frame  *)
(* above it goes on.                                                       *)
C4_RecursionBudget == []DescentDecrements /\ [][ExhaustionIsFatal]_vars

(* A nesting one deeper than the budget pays for, ended by RecursionLimit. *)
C4_Witness ==
    /\ result.status = "err"
    /\ result.err.kind = "RecursionLimit"
    /\ toks[1].t = "LookAhead"

(* The statement st of a block is a let.                                   *)
IsLetStmt(st) == toks[st.span.start] = Ident("let")

(* The name a let statement binds, which is its second token.              *)
LetName(st) == toks[st.span.start + 1].s

(* Statement i is a let whose name an earlier let of the block binds.      *)
Rebinds(stmts, i) ==
    /\ IsLetStmt(stmts[i])
    /\ \E j \in 1..(i - 1) : IsLetStmt(stmts[j]) /\ LetName(stmts[j]) = LetName(stmts[i])

(* C5: a block (its statements and expression parsed) in which a let binds *)
(* a name that an earlier let of the block binds is rejected with          *)
(* LetBindingExists at the name of the first such let; a block with no     *)
(* such let is accepted, whatever enable and disable statements it has.    *)
C5_LetBindingExists ==
    ev.fn = "parse_modified" =>
        Bind(FirstIndex(Len(ev.stmts), LAMBDA i : Rebinds(ev.stmts, i)), LAMBDA f :
            IF f <= Len(ev.stmts)
            THEN ret = Failure(At("LetBindingExists",
                                     TokSpan(ev.stmts[f].span.start + 1)))
            ELSE IsOk(ret))

(* let, enable, let of the same name: rejected at the third statement.     *)
C5_Witness ==
    /\ ev.fn = "parse_modified"
    /\ Len(ev.stmts) = 3
    /\ ~IsLetStmt(ev.stmts[2])
    /\ Rebinds(ev.stmts, 3)
    /\ IsFailure(ret) /\ ret.err.kind = "LetBindingExists"

RECURSIVE DigitsValue(_, _)
(* The number a string of decimal digits, given by its bytes, stands for.  *)
DigitsValue(bytes, acc) ==
    IF bytes = <<>> THEN acc
    ELSE DigitsValue(SubSeq(bytes, 2, Len(bytes)), 10 * acc + (bytes[1] - 48))

(* The source is range 'lo'-'hi' with no base.                             *)
IsPlainRange ==
    /\ Len(toks) = 4
    /\ toks[1] = Ident("range")
    /\ toks[2].t = "String" /\ toks[3].t = "Dash" /\ toks[4].t = "String"

RangeLower == DigitsValue(SubSeq(toks[2].s, 2, Len(toks[2].s) - 1), 0)

RangeUpper == DigitsValue(SubSeq(toks[4].s, 2, Len(toks[4].s) - 1), 0)

(* C6 as claimed: a range is accepted only if its lower bound is at most   *)
(* its upper bound as numbers, and it is rejected with                     *)
(* RangeIsNotIncreasing exactly if the lower bound is the greater number.  *)
C6_AsClaimed ==
    (IsPlainRange /\ result # Pending) =>
        /\ result.status = "ok" => RangeLower <= RangeUpper
        /\ (result.status = "err" /\ result.err.kind = "RangeIsNotIncreasing")
              <=> RangeLower > RangeUpper

(* The source is one bracketed class with nothing, or nothing but empty    *)
(* strings, between the brackets.                                          *)
ZeroItemClass ==
    /\ Len(toks) >= 2
    /\ toks[1].t = "OpenBracket" /\ toks[Len(toks)].t = "CloseBracket"
    /\ \A i \in 2..(Len(toks) - 1) : toks[i] = Str(<<>>)

(* C7: a bracketed class of no items is rejected with CharClass(Empty),    *)
(* and a CharClass node with an Items group that a production returns for  *)
(* a bracketed class has at least one item.                                *)
C7_CharClassNotEmpty ==
    /\ (result # Pending /\ ZeroItemClass) =>
          result = [status |-> "err", err |-> At("CharClass(Empty)", TokSpan(1))]
    /\ (ret # NoRet /\ IsOk(ret) /\ ret.out.k = "CharClass"
          /\ toks[ret.out.span.start].t = "OpenBracket"
          /\ ret.out.inner.g = "Items") => ret.out.inner.items # <<>>

(* [''] is rejected with CharClass(Empty).                                 *)
C7_Witness ==
    /\ ZeroItemClass
    /\ Len(toks) = 3
    /\ result.status = "err" /\ result.err.kind = "CharClass(Empty)"

(* C8: after a leading "|", no branch gives LonePipe at the "|", and one   *)
(* or more branches give what they give with no leading "|": the single    *)
(* branch itself, or the alternation of the branches.                      *)
C8_LeadingPipe ==
    ev.fn = "parse_or" =>
        IF ev.rules # <<>>
        THEN /\ IsOk(ret)
             /\ ret.out = IF Len(ev.rules) = 1 THEN ev.rules[1]
                             ELSE Alternation_new_expr(ev.rules)
             /\ ev.leading_pipe.some => toks[ev.leading_pipe.v.start].t = "Pipe"
        ELSE IF ev.leading_pipe.some
        THEN /\ toks[ev.leading_pipe.v.start].t = "Pipe"
             /\ ret = Failure(At("LonePipe", ev.leading_pipe.v))
        ELSE IsOk(ret)

(* A leading "|" before two branches gives their alternation.              *)
C8_Witness ==
    /\ ev.fn = "parse_or"
    /\ ev.leading_pipe.some
    /\ Len(ev.rules) = 2
    /\ IsOk(ret) /\ ret.out.k = "Alternation"

(* The stages of a run of the program, by what the environment decided.    *)
ArgsFail == ~cli.args_ok

ReadFails == cli.args_ok /\ cli.file /\ ~cli.readable

ParseFails == cli.args_ok /\ ~(cli.file /\ ~cli.readable) /\ result.status = "err"

CompileFails ==
    /\ cli.args_ok /\ ~(cli.file /\ ~cli.readable) /\ result.status = "ok"
    /\ cli.compiled.some /\ ~cli.compiled.v.ok

AllSucceed ==
    /\ cli.args_ok /\ ~(cli.file /\ ~cli.readable) /\ result.status = "ok"
    /\ cli.compiled.some /\ cli.compiled.v.ok

C10_JsonResult ==
    (cli.pc = "exit" /\ cli.json /\ ~ArgsFail /\ ~ReadFails) =>
        /\ cli.out.some
        /\ cli.out.v.success <=> cli.out.v.output.some
        /\ cli.out.v.success <=> AllSucceed
        /\ cli.out.v.success =>
              \A i \in 1..Len(cli.out.v.diagnostics) :
                  /\ cli.out.v.diagnostics[i].severity = "Warning"
                  /\ cli.out.v.diagnostics[i].kind \in cli.warnings

(* A success whose result keeps a warning of the compilation and leaves    *)
(* out the parser's warning, its kind being disabled.                      *)
C10_Witness ==
    /\ cli.pc = "exit" /\ cli.json
    /\ cli.out.some /\ cli.out.v.success
    /\ result.warnings # <<>>
    /\ cli.warnings = {"Compat"}
    /\ Len(cli.out.v.diagnostics) = 1

-----------------------------------------------------------------------------
(* Properties of the compiler.  They are stated on lib.results, what the   *)
(* calls of compile on lib.expr have returned so far.                      *)

(* The nodes of an expression, each before the nodes below it.             *)
RECURSIVE Nodes(_)
RECURSIVE NodesEach(_, _, _)
NodesEach(rules, lo, hi) ==
    IF lo > hi THEN <<>>
    ELSE IF lo = hi THEN Nodes(rules[lo])
    ELSE NodesEach(rules, lo, (lo + hi) \div 2)
         \o NodesEach(rules, ((lo + hi) \div 2) + 1, hi)

Nodes(rule) == <<rule>> \o NodesEach(Children(rule), 1, Len(Children(rule)))

(* The nodes of one kind, in their order.                                  *)
NodesOf(kind, rule) == SelectSeq(Nodes(rule), LAMBDA n : n.k = kind)

(* An expression with a Grapheme in which no other node can fail: no       *)
(* reference, no variable and no let.                                      *)
OnlyGraphemes(rule) ==
    /\ NodesOf("Grapheme", rule) # <<>>
    /\ \A i \in 1..Len(Nodes(rule)) :
          /\ Nodes(rule)[i].k \notin {"Reference", "Variable"}
          /\ Nodes(rule)[i].k = "StmtExpr" => Nodes(rule)[i].stmt.s # "Let"

(* How often a piece stands in a generated regex.                          *)
CountPieces(text, piece) == Cardinality({i \in 1..Len(text) : text[i] = piece})

(* C11: Rulex::compile of an expression with a Grapheme fails for the      *)
(* JavaScript flavor with Unsupported(Grapheme, JavaScript) at the span of *)
(* the first Grapheme and gives no regex; for every other flavor it gives  *)
(* a regex with one grapheme node for each Grapheme.                       *)
C11_GraphemeByFlavor ==
    \A r \in lib.results :
        (r.api = "Rulex" /\ OnlyGraphemes(lib.expr)) =>
            IF r.options.flavor = "JavaScript"
            THEN r.out = PassErr(At(Unsupported("Grapheme", "JavaScript"),
                                    NodesOf("Grapheme", lib.expr)[1].span))
            ELSE /\ r.out.ok
                 /\ CountPieces(r.out.v, Syntax("\\X"))
                        = Len(NodesOf("Grapheme", lib.expr))

(* A Grapheme below another node, compiled for JavaScript and for Rust.    *)
C11_Witness ==
    /\ lib.pc = "idle"
    /\ OnlyGraphemes(lib.expr) /\ lib.expr.k # "Grapheme"
    /\ \E r \in lib.results :
          r.api = "Rulex" /\ r.options.flavor = "JavaScript" /\ ~r.out.ok
    /\ \E r \in lib.results :
          r.api = "Rulex" /\ r.options.flavor = "Rust" /\ r.out.ok

(* The nodes of an expression in their order, each with whether it stands  *)
(* in the body of a let.                                                   *)
RECURSIVE Scoped(_, _)
RECURSIVE ScopedEach(_, _, _)
ScopedEach(rules, i, within) ==
    IF i > Len(rules) THEN <<>>
    ELSE Scoped(rules[i], within) \o ScopedEach(rules, i + 1, within)

Scoped(rule, within) ==
    <<[n |-> rule, within |-> within]>>
    \o (IF rule.k = "StmtExpr" /\ rule.stmt.s = "Let"
        THEN Scoped(rule.stmt.rule, TRUE) \o Scoped(rule.rule, within)
        ELSE ScopedEach(Children(rule), 1, within))

(* The places of the references in let bodies, and of the named groups     *)
(* whose name an earlier group has.                                        *)
LetReferences(s) == {i \in 1..Len(s) : s[i].n.k = "Reference" /\ s[i].within}

IsNamedGroup(n) == n.k = "Group" /\ n.capture.some /\ n.capture.v.name.some

RepeatedNames(s) ==
    {i \in 1..Len(s) :
        /\ IsNamedGroup(s[i].n)
        /\ \E j \in 1..(i - 1) :
              /\ IsNamedGroup(s[j].n)
              /\ s[j].n.capture.v.name.v = s[i].n.capture.v.name.v}

SetMin(S) == CHOOSE i \in S : \A j \in S : i <= j

IsReferenceInLet(out) == ~out.ok /\ out.err.kind = CompileErrorKind("ReferenceInLet")

(* C12: when an expression has a reference in the body of a let, at        *)
(* whatever nesting, and no repeated group name before it, Rulex::compile  *)
(* fails with ReferenceInLet at the span of the first such reference; and  *)
(* no compile fails with ReferenceInLet at anything but a reference in a   *)
(* let body.                                                               *)
C12_ReferenceInLet ==
    \A r \in lib.results :
        Bind(Scoped(lib.expr, FALSE), LAMBDA s :
            /\ (/\ r.api = "Rulex"
                /\ LetReferences(s) # {}
                /\ \A i \in RepeatedNames(s) : i > SetMin(LetReferences(s)))
               => r.out = PassErr(At(CompileErrorKind("ReferenceInLet"),
                                     s[SetMin(LetReferences(s))].n.span))
            /\ IsReferenceInLet(r.out)
               => \E i \in LetReferences(s) : s[i].n.span = r.out.err.span)

(* The reference is five nodes down in the body of the let, and a second   *)
(* reference stands outside the let.                                       *)
C12_Witness ==
    /\ lib.pc = "idle"
    /\ lib.expr.k = "StmtExpr" /\ lib.expr.stmt.s = "Let"
    /\ lib.expr.stmt.rule.depth >= 6
    /\ lib.expr.rule.k = "Reference"
    /\ \E r \in lib.results :
          r.api = "Rulex" /\ IsReferenceInLet(r.out) /\ r.out.err.span = Pos(10)

(* Calls of the same compile with the same options have all returned the  *)
(* same.                                                                   *)
SameResult ==
    \A r1, r2 \in lib.results :
        (r1.api = r2.api /\ r1.options = r2.options) => r1.out = r2.out

Lines(sort) == SelectSeq(cli.stderr, LAMBDA l : l.line = sort)

(* C14: without --json, a run whose source does not parse prints the first *)
(* ErrorsShown of its errors and no more, prints the note that errors were *)
(* omitted exactly if there are more than ErrorsShown, and ends with the   *)
(* summary, which gives the number of all errors if there is more than     *)
(* one.                                                                    *)
C14_ErrorsShown ==
    (cli.pc = "exit" /\ ~cli.json /\ ParseFails) =>
        /\ Len(Lines("diagnostic")) = Min(ErrorsShown, Len(cli.errors))
        /\ \A i \in 1..Len(Lines("diagnostic")) :
              /\ cli.stderr[i].line = "diagnostic"
              /\ cli.stderr[i].d = cli.errors[i]
        /\ Len(Lines("note")) = (IF Len(cli.errors) > ErrorsShown THEN 1 ELSE 0)
        /\ Len(Lines("error")) = 1
        /\ cli.stderr[Len(cli.stderr)].line = "error"
        /\ cli.stderr[Len(cli.stderr)].count
              = (IF Len(cli.errors) > 1 THEN Some(Len(cli.errors)) ELSE None)

(* Ten errors: eight are printed, then the note, then the summary with 10. *)
C14_Witness ==
    /\ cli.pc = "exit" /\ ~cli.json /\ ParseFails
    /\ Len(cli.errors) = ErrorsShown + 2
    /\ Len(cli.stderr) = ErrorsShown + 2
    /\ cli.stderr[ErrorsShown + 1].line = "note"

(* The trees that are walked node by node are those of at most this depth; *)
(* the nodes of deeper ones are looked at when a production returns them.  *)
MaxWalk == 16

(* Every Alternation at or below a node has two branches or more.          *)
RECURSIVE AlternationsBranch(_)
AlternationsBranch(rule) ==
    /\ rule.k = "Alternation" => Len(rule.rules) >= 2
    /\ \A i \in 1..Len(Children(rule)) : AlternationsBranch(Children(rule)[i])

(* C15: parse_or returns its single branch as it is, builds an Alternation *)
(* from two branches or more only, and gives the empty literal for no      *)
(* branch; every Alternation a production returns, and every Alternation   *)
(* of a returned AST, has two branches or more.                            *)
C15_AlternationBranches ==
    /\ (ev.fn = "parse_or" /\ IsOk(ret)) =>
          /\ Len(ev.rules) = 1 => ret.out = ev.rules[1]
          /\ ev.rules = <<>> => ret.out = Literal_new(<<>>, SpanDefault)
          /\ (ret.out.k = "Alternation" /\ Len(ev.rules) # 1) =>
                /\ Len(ev.rules) >= 2
                /\ Len(ret.out.rules) >= Len(ev.rules)
    /\ (IsOk(ret) /\ ret.out.k = "Alternation") => Len(ret.out.rules) >= 2
    /\ (result.status = "ok" /\ result.rule.depth <= MaxWalk) =>
          AlternationsBranch(result.rule)

(* The empty body of a group: parse_or has no branch and returns the empty *)
(* literal.                                                                *)
C15_Witness ==
    /\ ev.fn = "parse_or" /\ ev.rules = <<>> /\ ~ev.leading_pipe.some
    /\ IsOk(ret) /\ ret.out.k = "Literal"
    /\ ret.inp.pos <= Len(toks) /\ toks[ret.inp.pos].t = "CloseParen"

(* A Range has a radix from 2 to 36, digits below the radix, and a lower   *)
(* bound no longer than the upper.                                         *)
RangeValid(rule) ==
    /\ rule.radix >= 2 /\ rule.radix <= 36
    /\ \A i \in 1..Len(rule.start) : rule.start[i] >= 0 /\ rule.start[i] < rule.radix
    /\ \A i \in 1..Len(rule.end) : rule.end[i] >= 0 /\ rule.end[i] < rule.radix
    /\ Len(rule.start) <= Len(rule.end)

RECURSIVE RangesValid(_)
RangesValid(rule) ==
    /\ rule.k = "Range" => RangeValid(rule)
    /\ \A i \in 1..Len(Children(rule)) : RangesValid(Children(rule)[i])

(* A source that is one range: "range" string "-" string, and "base" with  *)
(* a number or nothing after it.                                           *)
RangeSource ==
    /\ Len(toks) \in {4, 6}
    /\ toks[1] = Ident("range")
    /\ toks[2].t = "String" /\ toks[3].t = "Dash" /\ toks[4].t = "String"
    /\ Len(toks) = 6 => (toks[5] = Ident("base") /\ toks[6].t = "Number")

(* The byte is a digit of the radix: 0-9, then the letters in either case. *)
IsDigitOf(c, radix) ==
    \/ c \in 48..57 /\ c - 48 < radix
    \/ c \in 97..122 /\ c - 87 < radix
    \/ c \in 65..90 /\ c - 55 < radix

(* The bound in token i, between its quotes, has a byte that is no digit.  *)
BadBound(i, radix) ==
    \E j \in 2..(Len(toks[i].s) - 1) : ~IsDigitOf(toks[i].s[j], radix)

(* C16: every Range a production returns, and every Range of a returned    *)
(* AST, has a radix from 2 to 36, digits below the radix and a lower bound *)
(* no longer than the upper; a source                                      *)
(* that is one range is rejected with Number(TooLarge) for a base above    *)
(* 36, with Number(TooSmall) for a base below 2, and with                  *)
(* Number(InvalidDigit) at the span of the first bound that has a byte     *)
(* that is no digit of the radix; the radix of the Range is the base, and  *)
(* 10 when there is none.                                                  *)
C16_RangeValid ==
    /\ (IsOk(ret) /\ ret.out.k = "Range") => RangeValid(ret.out)
    /\ (result.status = "ok" /\ result.rule.depth <= MaxWalk) => RangesValid(result.rule)
    /\ (RangeSource /\ result # Pending) =>
          Bind(IF Len(toks) = 6 THEN DecValue(toks[6].s, 0) ELSE 10, LAMBDA base :
              IF base > 36
              THEN result.status = "err" /\ result.err.kind = "Number(TooLarge)"
              ELSE IF base < 2
              THEN result.status = "err" /\ result.err.kind = "Number(TooSmall)"
              ELSE IF BadBound(2, base)
              THEN /\ result.status = "err"
                   /\ result.err = At("Number(InvalidDigit)", TokSpan(2))
              ELSE IF BadBound(4, base)
              THEN /\ result.status = "err"
                   /\ result.err = At("Number(InvalidDigit)", TokSpan(4))
              ELSE result.status = "ok" =>
                      /\ result.rule.k = "Range" /\ result.rule.radix = base
                      /\ Len(result.rule.start) = Len(toks[2].s) - 2
                      /\ Len(result.rule.end) = Len(toks[4].s) - 2)

(* Both bounds have a digit too large for base 8: the error is at the      *)
(* lower bound.                                                            *)
C16_Witness ==
    /\ RangeSource /\ Len(toks) = 6
    /\ BadBound(2, 8) /\ BadBound(4, 8)
    /\ result.status = "err"
    /\ result.err = At("Number(InvalidDigit)", TokSpan(2))

(* A source that is a character class of one range between two             *)
(* single-quoted strings, one that is a class of one such string, and one  *)
(* that is a class of two.                                                 *)
ClassRangeSource ==
    /\ Len(toks) = 5
    /\ toks[1].t = "OpenBracket" /\ toks[2].t = "String" /\ toks[3].t = "Dash"
    /\ toks[4].t = "String" /\ toks[5].t = "CloseBracket"

ClassStringSource ==
    /\ Len(toks) = 3
    /\ toks[1].t = "OpenBracket" /\ toks[2].t = "String" /\ toks[3].t = "CloseBracket"

ClassStringsSource ==
    /\ Len(toks) = 4
    /\ toks[1].t = "OpenBracket" /\ toks[2].t = "String" /\ toks[3].t = "String"
    /\ toks[4].t = "CloseBracket"

(* The code points between the quotes of the string in token i.            *)
CodePoints(i) == SubSeq(toks[i].s, 2, Len(toks[i].s) - 1)

(* What a side of a range is refused for.                                  *)
SideError(i) ==
    IF Len(CodePoints(i)) > 1 THEN Some("CharString(TooManyCodePoints)")
    ELSE IF CodePoints(i) = <<>> THEN Some("CharString(Empty)")
    ELSE None

(* C17: in a character class, x - y between two strings is a range only if *)
(* both hold one code point.  The sides are looked at in their order: a    *)
(* side of more than one code point is refused with                        *)
(* CharString(TooManyCodePoints), an empty one with CharString(Empty), at  *)
(* the span of that side; two single code points of which the first is the *)
(* greater are refused with CharClass(DescendingRange); a string with no   *)
(* "-" after it can have any number of code points, none included, and     *)
(* gives an item for each (a class left with no item at all is refused as  *)
(* empty).                                                                 *)
C17_CharRange ==
    /\ (ClassRangeSource /\ result # Pending) =>
          IF SideError(2).some
          THEN result.status = "err" /\ result.err = At(SideError(2).v, TokSpan(2))
          ELSE IF SideError(4).some
          THEN result.status = "err" /\ result.err = At(SideError(4).v, TokSpan(4))
          ELSE IF CodePoints(2)[1] > CodePoints(4)[1]
          THEN result.status = "err" /\ result.err.kind = "CharClass(DescendingRange)"
          ELSE /\ result.status = "ok"
               /\ result.rule.inner
                     = Items(<<Item_Range(CodePoints(2)[1], CodePoints(4)[1])>>)
    /\ (ClassStringSource /\ result # Pending) =>
          IF CodePoints(2) = <<>>
          THEN result.status = "err" /\ result.err.kind = "CharClass(Empty)"
          ELSE /\ result.status = "ok"
               /\ result.rule.inner
                     = Items([i \in 1..Len(CodePoints(2)) |-> Item_Char(CodePoints(2)[i])])
    /\ (ClassStringsSource /\ result # Pending /\ CodePoints(2) \o CodePoints(3) # <<>>) =>
          /\ result.status = "ok"
          /\ Len(result.rule.inner.items) = Len(CodePoints(2)) + Len(CodePoints(3))

(* The first side is one code point, the second is three: the error is at  *)
(* the second side.                                                        *)
C17_Witness ==
    /\ ClassRangeSource
    /\ Len(CodePoints(2)) = 1 /\ Len(CodePoints(4)) = 3
    /\ result.status = "err"
    /\ result.err = At("CharString(TooManyCodePoints)", TokSpan(4))

(* The places of the tokens of deprecated syntax, in their order, and the  *)
(* warning each of them is to give.                                        *)
DeprecatedTokens ==
    SelectSeq([i \in 1..Len(toks) |-> i],
              LAMBDA i : toks[i].t \in {"Dot", "BStart", "BEnd"})

DeprecationOf(i) ==
    Warning_at(IF toks[i].t = "Dot" THEN "Deprecation(Dot)"
               ELSE IF toks[i].t = "BStart" THEN "Deprecation(OldStartLiteral)"
               ELSE "Deprecation(OldEndLiteral)", TokSpan(i))

(* C18: a source with deprecated syntax that is valid otherwise gives its  *)
(* AST, and with it one warning for each "." in brackets, each "<%" and    *)
(* each "%>", of the kind Dot, OldStartLiteral and OldEndLiteral and at    *)
(* the token's span, and no other warning; the boundary the old-syntax     *)
(* rule returns for "<%" is Start, for "%>" it is End.                     *)
C18_Deprecations ==
    /\ result.status = "ok" =>
          result.warnings = [j \in 1..Len(DeprecatedTokens) |->
                                DeprecationOf(DeprecatedTokens[j])]
    /\ (IsOk(ret) /\ ret.out.k = "Boundary"
          /\ toks[ret.out.span.start].t \in {"BStart", "BEnd"}) =>
          /\ ret.out.span = TokSpan(ret.out.span.start)
          /\ ret.out.kind = (IF toks[ret.out.span.start].t = "BStart" THEN "Start"
                             ELSE "End")

(* A let with "[.]" in its body, then "<%", the variable and "%>": the AST *)
(* comes with three warnings.                                              *)
C18_Witness ==
    /\ result.status = "ok"
    /\ result.rule.k = "StmtExpr"
    /\ Len(result.warnings) = 3
    /\ result.warnings[1].kind = "Deprecation(Dot)"
    /\ result.warnings[2].kind = "Deprecation(OldStartLiteral)"
    /\ result.warnings[3].kind = "Deprecation(OldEndLiteral)"

(* No production has panicked, and the parse has not ended in a panic.     *)
NoPanic ==
    /\ ret # NoRet => (IsOk(ret) \/ ret.err.kind # "Panic")
    /\ result.status \in {"pending", "ok", "err"}

(* What parse returns is an AST with its warnings or an error, never both. *)
RuleOrError ==
    /\ result.status = "ok" => DOMAIN result = {"status", "rule", "warnings"}
    /\ result.status = "err" => DOMAIN result = {"status", "err"}

(* The closure of parse_fixes gives RecursionLimit, for which it reads     *)
(* repetitions[64], for a chain of more than 64 suffixes only.             *)
IndexInRange ==
    (ev.fn = "parse_fixes" /\ IsRecursionLimit(ret)) =>
        Len(ev.repetitions) > RepetitionChainMax

(* A Failure stays what a production returns until it is the result.       *)
FailureStays ==
    (ret # NoRet /\ IsFailure(ret)) =>
        /\ ret' # NoRet => ret' = ret
        /\ ret' = NoRet => (result' = [status |-> "err", err |-> ret.err])

(* C19: the parser does not panic: neither unreachable!() is reached,      *)
(* repetitions[64] is read in chains of more than 64 suffixes only, the    *)
(* parse ends with an AST or with an error, and after a Failure with the   *)
(* error of that Failure and no AST.                                       *)
C19_NoPanic ==
    [](NoPanic /\ RuleOrError /\ IndexInRange) /\ [][FailureStays]_vars

(* A chain of 65 suffixes: repetitions[64] is read, and the parse ends     *)
(* with RecursionLimit from there to the last suffix.                      *)
C19_Witness ==
    /\ Len(toks) = RepetitionChainMax + 2
    /\ result = [status |-> "err",
                 err |-> At("RecursionLimit",
                            Join(TokSpan(RepetitionChainMax + 2),
                                 TokSpan(Len(toks))))]

(* The places, among the nodes in their order, of the nodes that need a    *)
(* feature the options do not allow or the flavor lacks.                   *)
ValidationFaults(rule, options) ==
    {i \in 1..Len(Nodes(rule)) :
        Bind(NodeFeature(Nodes(rule)[i]), LAMBDA f :
            f.some /\ (f.v.gate \notin options.allowed_features
                         \/ options.flavor \in f.v.lacking))}

(* The places of what the capture analysis rejects.                        *)
CaptureFaults(s) == LetReferences(s) \cup RepeatedNames(s)

(* The variables that no let of the expression and no builtin binds:       *)
(* lowering fails on them wherever they stand.                             *)
UnboundVariables(rule) ==
    {i \in 1..Len(Nodes(rule)) :
        /\ Nodes(rule)[i].k = "Variable"
        /\ \A j \in 1..Len(builtins) : builtins[j].name # Nodes(rule)[i].name
        /\ \A j \in 1..Len(Nodes(rule)) :
              (Nodes(rule)[j].k = "StmtExpr" /\ Nodes(rule)[j].stmt.s = "Let")
                 => Nodes(rule)[j].stmt.name # Nodes(rule)[i].name}

(* Lowering after a capture analysis that went through.                    *)
LoweringOf(rule, options) ==
    Bind(get_capturing_groups(rule, Captures_new, FALSE), LAMBDA c :
        comp(rule, options, CompileState(c.map, c.count, builtins)))

(* The number in Stages of the first stage that fails, 0 if none does.     *)
FirstFailing(rule, options) ==
    IF ValidationFaults(rule, options) # {} THEN 1
    ELSE IF CaptureFaults(Scoped(rule, FALSE)) # {} THEN 2
    ELSE IF ~LoweringOf(rule, options).ok THEN 3
    ELSE 0

(* The diagnostic of the first fault of a stage.                           *)
FirstFault(stage, rule, options) ==
    IF stage = 1
    THEN Bind(Nodes(rule)[SetMin(ValidationFaults(rule, options))], LAMBDA n :
             diagnostic(At(Unsupported(NodeFeature(n).v.feature, options.flavor),
                           n.span)))
    ELSE IF stage = 2
    THEN Bind(Scoped(rule, FALSE), LAMBDA s :
         Bind(s[SetMin(CaptureFaults(s))].n, LAMBDA n :
             diagnostic(At(CompileErrorKind(IF n.k = "Reference" THEN "ReferenceInLet"
                                            ELSE "NameUsedMultipleTimes"), n.span))))
    ELSE diagnostic(LoweringOf(rule, options).err)

(* The position of a stage in Stages.                                      *)
StageNumber(stage) == CHOOSE i \in 1..Len(Stages) : Stages[i] = stage

(* The last call was Expr::compile and has returned.                       *)
ExprReturned == lib.pc = "idle" /\ lib.stages # <<>>

(* C20: Expr::compile enters its stages in the order validation, capture   *)
(* analysis, lowering, optimisation, code generation and returns at the    *)
(* first that fails, with the one diagnostic of the first fault of that    *)
(* stage and no regex: a validation fault is reported whatever the capture *)
(* analysis and lowering would find, a capture fault whatever lowering     *)
(* would find, an unbound variable fails a call that gets as far as        *)
(* lowering, and a call with no fault goes through all five stages and     *)
(* returns a regex and no diagnostic.                                      *)
C20_StageOrder ==
    /\ lib.pc # "idle" =>
          /\ lib.stages = SubSeq(Stages, 1, StageNumber(lib.pc) - 1)
          /\ lib.out = None
          /\ FirstFailing(lib.expr, lib.options.v) \notin 1..(StageNumber(lib.pc) - 1)
    /\ ExprReturned =>
          Bind(FirstFailing(lib.expr, lib.options.v), LAMBDA f :
              /\ UnboundVariables(lib.expr) # {} => f # 0
              /\ f = 0 =>
                    /\ lib.stages = Stages
                    /\ lib.out.v.ok /\ DOMAIN lib.out.v = {"ok", "v"}
              /\ f # 0 =>
                    /\ lib.stages = SubSeq(Stages, 1, f)
                    /\ lib.out.v = PassErr(FirstFault(f, lib.expr, lib.options.v))
                    /\ DOMAIN lib.out.v.err = {"severity", "kind", "span"}
                    /\ lib.out.v.err.kind.e \in {"ReferenceInLet", "NameUsedMultipleTimes"}
                          <=> f = 2)

(* `let x = ::n; y` has a reference, which Rust lacks and which stands in  *)
(* a let, and an unbound variable.  One call with Rust has returned        *)
(* Unsupported, and the last call, with a flavor that has references, has  *)
(* stopped in the capture analysis with ReferenceInLet.                    *)
C20_Witness ==
    /\ ExprReturned
    /\ LetReferences(Scoped(lib.expr, FALSE)) # {}
    /\ UnboundVariables(lib.expr) # {}
    /\ ValidationFaults(lib.expr, lib.options.v) = {}
    /\ lib.stages = <<"validate", "captures">>
    /\ IsReferenceInLet(lib.out.v)
    /\ \E r \in lib.results :
          /\ r.api = "Expr" /\ r.options.flavor = "Rust"
          /\ ValidationFaults(lib.expr, r.options) # {}
          /\ ~r.out.ok /\ r.out.err.kind.e = "Unsupported"

(* Suffix i of the chain is one the sequencing rule can never reject: the  *)
(* first, a "*", a braced one, or one with a keyword of its own.           *)
SuffixAlwaysPasses(reps, i) ==
    i = 1 \/ SuffixSymbol(reps[i]) \in {"Star", "OpenBrace"} \/ SuffixHasKeyword(reps[i])

(* The repetitions around the atom of a rule, innermost first.             *)
RECURSIVE RepetitionsOf(_)
RepetitionsOf(rule) ==
    IF rule.k = "Repetition" THEN Append(RepetitionsOf(rule.rule), rule) ELSE <<>>

(* C21: a chain of at most 64 suffixes is accepted, with one repetition    *)
(* around the atom for each suffix in their order (looked at in rules of   *)
(* depth up to MaxWalk), exactly when no "?" or                            *)
(* "+" without a keyword of its own comes directly after a suffix without  *)
(* a keyword, and is rejected with a repetition error otherwise.  So a     *)
(* chain of suffixes that are each the first, a "*", a braced one or one   *)
(* with a keyword is accepted, and a "?" or "+" without a keyword is       *)
(* rejected directly after a "*" without a keyword as it is after a braced *)
(* suffix without one.                                                     *)
C21_ChainAccepted ==
    ChainChecked =>
        Bind(ev.repetitions, LAMBDA reps :
            /\ IsOk(ret) <=> \A i \in 1..Len(reps) : ~BareMarkAfterBare(reps, i)
            /\ ~IsOk(ret) => IsRepetitionError(ret)
            /\ (IsOk(ret) /\ ret.out.depth <= MaxWalk) =>
                  Bind(RepetitionsOf(ret.out), LAMBDA built :
                      /\ Len(built) >= Len(reps)
                      /\ \A i \in 1..Len(reps) :
                            Bind(built[Len(built) - Len(reps) + i], LAMBDA r :
                                /\ r.kind = reps[i].kind
                                /\ r.quantifier = reps[i].quantifier
                                /\ r.span.end = reps[i].span.end))
            /\ (\A i \in 1..Len(reps) : SuffixAlwaysPasses(reps, i)) => IsOk(ret)
            /\ \A i \in 2..Len(reps) :
                  (/\ SuffixIsMark(reps[i]) /\ ~SuffixHasKeyword(reps[i])
                   /\ SuffixSymbol(reps[i - 1]) \in {"Star", "OpenBrace"}
                   /\ ~SuffixHasKeyword(reps[i - 1]))
                     => IsRepetitionError(ret))

(* `'a' * lazy ? + lazy`: the "?" passes after the "*" that has a keyword, *)
(* and the "+" passes after the "?" because it has a keyword itself.       *)
C21_Witness ==
    /\ ChainChecked /\ Len(ev.repetitions) = 3
    /\ SuffixSymbol(ev.repetitions[1]) = "Star" /\ SuffixHasKeyword(ev.repetitions[1])
    /\ SuffixSymbol(ev.repetitions[2]) = "QuestionMark"
    /\ ~SuffixHasKeyword(ev.repetitions[2])
    /\ SuffixSymbol(ev.repetitions[3]) = "Plus" /\ SuffixHasKeyword(ev.repetitions[3])
    /\ IsOk(ret) /\ Len(RepetitionsOf(ret.out)) = 3
    /\ RepetitionsOf(ret.out)[2].quantifier = "Default"

(* The recursions that have started and not ended: the frames of recurse   *)
(* below the top that wait for their parser.                               *)
OpenRecursions ==
    Cardinality({i \in 1..(Len(stack) - 1) :
                    stack[i].fn = "recurse" /\ stack[i].pc = "wait"})

(* The budget a production has is what the recursions around it took.      *)
DepthOnly == stack # <<>> => Top.inp.rec = RecursionBudget - OpenRecursions

(* A production that succeeds returns the budget it was entered with, and  *)
(* the whole parse the whole budget.                                       *)
BudgetReturned ==
    (ret # NoRet /\ IsOk(ret)) =>
        ret.inp.rec = IF stack = <<>> THEN RecursionBudget
                      ELSE IF Top.fn = "recurse" THEN Top.inp.rec - 1
                      ELSE Top.inp.rec

(* recurse gives back one unit after a parser that succeeded, and returns  *)
(* what the parser returned with the budget recurse was entered with; a    *)
(* RecursionLimit comes from recurse only below RecursionBudget open       *)
(* recursions.                                                             *)
RecurseRestores ==
    /\ (Resuming("recurse", "wait") /\ IsOk(ret)) =>
          /\ IsOk(ret') /\ ret'.out = ret.out /\ ret'.inp.pos = ret.inp.pos
          /\ ret'.inp.rec = ret.inp.rec + 1
          /\ ret'.inp.rec = Top.inp.rec
    /\ (Calling("recurse", "start") /\ ret' # NoRet /\ IsRecursionLimit(ret')) =>
          OpenRecursions = RecursionBudget

(* Sources of siblings are not rejected.                                   *)
SiblingsAccepted == toks \in SiblingInputs => result.status \in {"pending", "ok"}

(* C22: recurse ends each recursion whose parser succeeds, so a production *)
(* returns the budget it was entered with, the budget at any point is      *)
(* RecursionBudget less the recursions open around it, RecursionLimit      *)
(* comes from recurse only when RecursionBudget recursions are open, and a *)
(* sequence or an alternation of more siblings than the budget has units   *)
(* is accepted.                                                            *)
C22_BudgetRestored ==
    [](DepthOnly /\ BudgetReturned /\ SiblingsAccepted) /\ [][RecurseRestores]_vars

(* `(('a'))(('a'))` has parsed: each group took two units on the way in,   *)
(* and parse_modified returns to parse with the whole budget.              *)
C22_Witness ==
    /\ toks = Siblings(Groups(2), <<>>, SiblingsOver + 1)
    /\ stack = <<>> /\ ret # NoRet /\ IsOk(ret)
    /\ ret.inp.pos = Len(toks) + 1
    /\ ret.inp.rec = RecursionBudget
    /\ ret.out.k = "Group" /\ Len(ret.out.parts) = SiblingsOver + 1

(* The number of tokens t among the first n of the source.                 *)
CountToken(t, n) == Cardinality({i \in 1..n : toks[i] = P(t)})

(* The source has a ")" with no "(" before it to match, or ends with "|":  *)
(* no expression takes that token.                                         *)
HasUnmatchedClose ==
    \E n \in 1..Len(toks) :
        toks[n] = P("CloseParen") /\ CountToken("CloseParen", n) > CountToken("OpenParen", n)

EndsWithPipe == toks # <<>> /\ toks[Len(toks)] = P("Pipe")

(* The top-level parse_modified has returned to parse with a rule.         *)
TopLevelParsed == result = Pending /\ stack = <<>> /\ ret # NoRet /\ IsOk(ret)

(* What parse makes of a rule that parse_modified returned: the rule and   *)
(* the warnings when no token is left, and otherwise LeftoverTokens at the *)
(* span of what is left, which starts at the first token not consumed,     *)
(* and nothing else.                                                       *)
LeftoverIsError ==
    TopLevelParsed =>
        IF ret.inp.pos > Len(toks)
        THEN result' = [status |-> "ok", rule |-> ret.out, warnings |-> warnings]
        ELSE /\ result'.status = "err"
             /\ DOMAIN result' = {"status", "err"}
             /\ result'.err = At("LeftoverTokens", InputSpan(ret.inp))
             /\ result'.err.span.start = ret.inp.pos

(* C23: parse returns a rule only when parse_modified has consumed every   *)
(* token; when the top-level expression parses and tokens are left, parse  *)
(* fails with LeftoverTokens at the span of what is left and returns no    *)
(* rule and no warnings.  So a source that ends with "|" or has an         *)
(* unmatched ")" is never accepted.                                        *)
C23_LeftoverTokens ==
    /\ [][LeftoverIsError]_vars
    /\ [](result.status = "ok" => (~EndsWithPipe /\ ~HasUnmatchedClose))

(* `[.] )`: the class has parsed with its deprecation warning, the ")" is  *)
(* left, and parse has returned LeftoverTokens at the ")" alone.           *)
C23_Witness ==
    /\ toks = ClassOf(<<P("Dot")>>) \o <<P("CloseParen")>>
    /\ warnings # <<>>
    /\ result = [status |-> "err", err |-> At("LeftoverTokens", TokSpan(Len(toks)))]

(* The number of capturing groups among the nodes of a rule.               *)
CaptureCount(rule) ==
    Len(SelectSeq(Nodes(rule), LAMBDA n : n.k = "Group" /\ n.capture.some))

(* What parse_group makes of the rule between its parentheses.             *)
GroupBuilt ==
    ev.fn = "parse_group" =>
        /\ IsOk(ret)
        /\ ~ev.capture.some => ret.out = ev.rule
        /\ ev.capture.some =>
              /\ ret.out.k = "Group"
              /\ ret.out.capture = Some(ev.capture.v.capture)
              /\ ret.out.span.start = ev.capture.v.span.start
              /\ toks[ev.capture.v.span.start] = P("Colon")
              /\ IF ev.rule.k = "Group" /\ ~ev.rule.capture.some
                 THEN /\ ret.out.parts = ev.rule.parts
                      /\ ret.out.span.end = ev.rule.span.end
                 ELSE /\ ret.out.parts = <<ev.rule>>
                      /\ ret.out.span.end = ret.inp.pos
                      /\ toks[ret.inp.pos - 1] = P("CloseParen")
        /\ ev.rule.depth <= MaxWalk =>
              CaptureCount(ret.out)
                 = CaptureCount(ev.rule) + (IF ev.capture.some THEN 1 ELSE 0)

(* C24: a parsed rule has as many capturing groups as the source has ":"   *)
(* (looked at in rules of depth up to MaxWalk).  parse_group returns the   *)
(* rule between its parentheses as it is when there is no prefix; with a   *)
(* prefix it sets the capture of that rule in place when the rule is a     *)
(* group that does not capture, and otherwise returns a new capturing      *)
(* group from the ":" to the ")" with the rule as its one part, so that    *)
(* the capturing groups of the rule all stay.                              *)
C24_CaptureCount ==
    /\ GroupBuilt
    /\ (result.status = "ok" /\ result.rule.depth <= MaxWalk) =>
          CaptureCount(result.rule) = CountToken("Colon", Len(toks))

(* `:(:n('a' 'b'))`: the inner prefix has set the capture of the sequence  *)
(* in place, the outer one has wrapped the capturing group in a new one.   *)
C24_Witness ==
    /\ toks = <<P("Colon"), P("OpenParen"), P("Colon"), Ident("n"), P("OpenParen"),
                A, B, P("CloseParen"), P("CloseParen")>>
    /\ result.status = "ok"
    /\ CaptureCount(result.rule) = 2
    /\ result.rule.capture = Some([name |-> None])
    /\ Len(result.rule.parts) = 1
    /\ result.rule.parts[1].capture = Some([name |-> Some("n")])
    /\ Len(result.rule.parts[1].parts) = 2

(* A field has been read by a Deserializer that hands strings to           *)
(* visit_borrowed_str, the method CodeVisitor has.                         *)
CodeRead ==
    /\ cli.pc = "read"
    /\ cli.wire.v.json = "string" => cli.delivery = Some("visit_borrowed_str")

(* The string is a decimal u16, as str::parse reads one, that is a valid   *)
(* code.                                                                   *)
IsCodeNumber(s) ==
    Bind(IF s # <<>> /\ s[1] = 43 THEN Tail(s) ELSE s, LAMBDA digits :
        /\ digits # <<>>
        /\ \A i \in 1..Len(digits) : digits[i] \in 48..57
        /\ \E code \in DiagnosticCodes :
              StripZeros(digits) = (IF code = 0 THEN <<>> ELSE Decimal(code)))

(* The string without the "P"s it starts with.                             *)
AfterPs(s) ==
    SubSeq(s, FirstIndex(Len(s), LAMBDA i : s[i] # 80), Len(s))

(* A code that is there is written as "P" and its digits, and read back    *)
(* as it was.                                                              *)
PresentRoundTrip ==
    (CodeRead /\ cli.value.some /\ cli.value.v.some) =>
        /\ cli.wire.v.json = "string"
        /\ cli.wire.v.s[1] = 80
        /\ Len(cli.wire.v.s) >= 1 + CodeDigits
        /\ DecValue(Tail(cli.wire.v.s), 0) = cli.value.v.v
        /\ cli.back.v = PassOk(cli.value.v)

(* A code that is not there is written as null, and read back as not      *)
(* there.                                                                  *)
AbsentRoundTrip ==
    (CodeRead /\ cli.value.some /\ ~cli.value.v.some) =>
        /\ cli.wire.v = JsonNull
        /\ cli.back.v = PassOk(None)

(* A string is accepted exactly when what follows its leading "P"s is the  *)
(* number of a valid code, and is then read as that code.                  *)
AcceptedStrings ==
    (CodeRead /\ cli.wire.v.json = "string") =>
        /\ cli.back.v.ok <=> IsCodeNumber(AfterPs(cli.wire.v.s))
        /\ cli.back.v.ok =>
              /\ cli.back.v.v.some
              /\ Decimal(cli.back.v.v.v) = StripZeros(SubSeq(AfterPs(cli.wire.v.s),
                     IF AfterPs(cli.wire.v.s)[1] = 43 THEN 2 ELSE 1,
                     Len(AfterPs(cli.wire.v.s))))

(* C25 as claimed: the code field round-trips, deserialize(serialize(v))   *)
(* = v for a code that is there, written as "P" and its digits, and for a  *)
(* code that is not there, written as null; and deserialize accepts a      *)
(* string exactly when, its leading "P"s taken off, it is a decimal u16    *)
(* that is a valid code.                                                   *)
C25_AsClaimed == PresentRoundTrip /\ AbsentRoundTrip /\ AcceptedStrings

=============================================================================
